---- MODULE Spec2Model ----
(***************************************************************************)
(* A model of the link classification and rewriting engine of the          *)
(* helper-tools note scripts (src/obsidian/update_obsidian_link_format.py  *)
(* and its sibling scripts).  Texts, links and paths are sequences of      *)
(* one-character strings; the regular expressions of the source are        *)
(* written as syntax trees and run by a backtracking matcher that follows  *)
(* the priority order of Python's re module; the os.path functions are     *)
(* those of posixpath.                                                     *)
(***************************************************************************)
EXTENDS Integers, Sequences, FiniteSets, TLC

VARIABLES
    pc,               \* position of the running script
    content,          \* the note as read from disk
    updated_content,  \* the text being transformed
    code_blocks,      \* save_code_blocks' list of (placeholder, code)
    files,            \* the regular files of the file system (absolute paths)
    resource_cache,   \* the global resource_cache: key -> relative path or None
    calls,            \* the find_resource_file calls made so far, oldest first
    link,             \* the argument of is_web_link
    answer,           \* its result
    parts,            \* the parts list of the rewriter that ran last
    warnings,         \* the "resource not found" warnings logged so far
    disk,             \* the text of each note on disk
    faults,           \* the I/O operation that fails on each note, if any
    walk,             \* the files os.walk still has to yield
    processed,        \* the notes iterate_files has logged as being processed
    reported,         \* the I/O errors printed or logged
    raised,           \* the exception that left iterate_files, or None
    updated_count,    \* iterate_files' counter
    parsed,           \* the list a link parser returned
    clock,            \* the China time of day, in seconds
    system_tz,        \* the time zone of the system, as tzutil /g reports it
    current_tz,       \* manage_timezone_switching's current_tz
    target_tz,        \* the time zone it is calling set_timezone with
    attempt           \* the index of its retry loop

vars == <<pc, content, updated_content, code_blocks, files, resource_cache,
          calls, link, answer, parts, warnings,
          disk, faults, walk, processed, reported, raised, updated_count, parsed,
          clock, system_tz, current_tz, target_tz, attempt>>

docVars == <<pc, content, updated_content, code_blocks>>
fsVars == <<files, resource_cache, calls>>
linkVars == <<link, answer>>
logVars == <<parts, warnings>>
batchVars == <<disk, faults, walk, processed, reported, raised, updated_count>>
parseVars == <<parsed>>
tzVars == <<clock, system_tz, current_tz, target_tz, attempt>>

\* the timezone manager is not running
NoManager ==
    /\ clock = 0 /\ system_tz = "None" /\ current_tz = "None" /\ target_tz = "None"
    /\ attempt = 0

\* no batch is running
NoBatch ==
    /\ disk = <<>> /\ faults = <<>> /\ walk = <<>> /\ processed = <<>>
    /\ reported = <<>> /\ raised = "None" /\ updated_count = 0

(***************************************************************************)
(* Characters and strings.                                                 *)
(***************************************************************************)
Chars(str) == <<>> \o [i \in 1..Len(str) |-> SubSeq(str, i, i)]

Lower == {"a","b","c","d","e","f","g","h","i","j","k","l","m",
          "n","o","p","q","r","s","t","u","v","w","x","y","z"}
Upper == {"A","B","C","D","E","F","G","H","I","J","K","L","M",
          "N","O","P","Q","R","S","T","U","V","W","X","Y","Z"}
Digit == {"0","1","2","3","4","5","6","7","8","9"}
Alpha == Lower \cup Upper
AlNum == Alpha \cup Digit
WordCh == AlNum \cup {"_"}          \* \w
SpaceCh == {" ", "\t", "\n", "\r"}  \* \s

None == "None"

\* the backquote character, which a TLA+ string cannot hold
BQ == "bq"

LowerOf(ch) ==
    IF ch \in Upper
    THEN CHOOSE l \in Lower :
           \E k \in 1..26 : /\ SubSeq("ABCDEFGHIJKLMNOPQRSTUVWXYZ", k, k) = ch
                            /\ SubSeq("abcdefghijklmnopqrstuvwxyz", k, k) = l
    ELSE ch

\* str.lower()
StrLower(s) == [i \in 1..Len(s) |-> LowerOf(s[i])]

\* s.startswith(p)
StartsWith(s, p) == Len(s) >= Len(p) /\ SubSeq(s, 1, Len(p)) = p

\* s.endswith(p)
EndsWith(s, p) == Len(s) >= Len(p) /\ SubSeq(s, Len(s) - Len(p) + 1, Len(s)) = p

\* s[i:] with a 0-based index
From(s, i) == SubSeq(s, i + 1, Len(s))

\* s.find(p, i): least 0-based index >= i where p occurs, or -1
RECURSIVE Find(_, _, _)
Find(s, p, i) ==
    IF i + Len(p) > Len(s) THEN -1
    ELSE IF \A k \in 1..Len(p) : s[i + k] = p[k] THEN i
    ELSE Find(s, p, i + 1)

\* p in s
Contains(s, p) == Find(s, p, 0) >= 0

\* s.replace(old, new): every non-overlapping occurrence, left to right
RECURSIVE Replace(_, _, _)
Replace(s, old, new) ==
    LET k == Find(s, old, 0)
    IN IF k < 0 \/ Len(old) = 0 THEN s
       ELSE SubSeq(s, 1, k) \o new \o Replace(From(s, k + Len(old)), old, new)

\* s.strip()
RECURSIVE LStrip(_)
LStrip(s) == IF s # <<>> /\ Head(s) \in SpaceCh THEN LStrip(Tail(s)) ELSE s
RECURSIVE RStrip(_)
RStrip(s) ==
    IF s # <<>> /\ s[Len(s)] \in SpaceCh THEN RStrip(SubSeq(s, 1, Len(s) - 1)) ELSE s
Strip(s) == RStrip(LStrip(s))

\* str(n) for n >= 0
RECURSIVE Decimal(_)
Decimal(n) ==
    LET d == SubSeq("0123456789", (n % 10) + 1, (n % 10) + 1)
    IN IF n < 10 THEN <<d>> ELSE Decimal(n \div 10) \o <<d>>

(***************************************************************************)
(* Regular expressions: syntax trees and a backtracking matcher.  M gives  *)
(* the outcomes of matching r at position i (0-based) in priority order,   *)
(* each an <<end, groups>> pair; the first one is the match re reports.    *)
(***************************************************************************)
NGroups == 9
NoGroups == [g \in 1..NGroups |-> <<-1, -1>>]

Set(cs) == [t |-> "set", cs |-> cs]
NSet(cs) == [t |-> "nset", cs |-> cs]
Cat(rs) == [t |-> "cat", rs |-> rs]
Alt(rs) == [t |-> "alt", rs |-> rs]
Rep(r, min, max, greedy) == [t |-> "rep", r |-> r, min |-> min, max |-> max, greedy |-> greedy]
Star(r) == Rep(r, 0, -1, TRUE)
Plus(r) == Rep(r, 1, -1, TRUE)
Opt(r) == Rep(r, 0, 1, TRUE)
Grp(n, r) == [t |-> "grp", n |-> n, r |-> r]
Look(r) == [t |-> "look", r |-> r, neg |-> FALSE]
NLook(r) == [t |-> "look", r |-> r, neg |-> TRUE]
Lit(str) == Cat([i \in 1..Len(str) |-> Set({SubSeq(str, i, i)})])
Bos == [t |-> "bos"]      \* ^ without re.MULTILINE
Eos == [t |-> "eos"]      \* $ without re.MULTILINE
Eol == [t |-> "eol"]      \* $ with re.MULTILINE
WordB == [t |-> "wordb"]  \* \b
AnyCh == NSet({})         \* [\s\S]

IsWordAt(s, i) == i >= 1 /\ i <= Len(s) /\ s[i] \in WordCh

\* a list without the later copies of its elements
RECURSIVE Dedup(_, _)
Dedup(res, k) ==
    IF k > Len(res) THEN <<>>
    ELSE IF \E j \in 1..(k - 1) : res[j] = res[k] THEN Dedup(res, k + 1)
    ELSE <<res[k]>> \o Dedup(res, k + 1)

\* the outcomes of repeating a one-character pattern: the run of characters
\* it accepts from position i on is taken longest first (greedy) or shortest
\* first (lazy)
RepOfChar(r, s, i, c) ==
    LET accepts(ch) == IF r.r.t = "set" THEN ch \in r.r.cs ELSE ch \notin r.r.cs
        stops == {k \in (i + 1)..Len(s) : ~accepts(s[k])}
        run == IF stops = {} THEN Len(s) - i
               ELSE (CHOOSE k \in stops : \A h \in stops : k <= h) - 1 - i
        top == IF r.max # -1 /\ r.max < run THEN r.max ELSE run
    IN IF top < r.min THEN <<>>
       ELSE <<>> \o [k \in 1..(top - r.min + 1) |->
                      <<IF r.greedy THEN i + top - (k - 1) ELSE i + r.min + (k - 1), c>>]

RECURSIVE M(_, _, _, _)
RECURSIVE MCat(_, _, _, _, _)
RECURSIVE MCatEach(_, _, _, _, _)
RECURSIVE MAlt(_, _, _, _, _)
RECURSIVE MRep(_, _, _, _, _)
RECURSIVE MRepEach(_, _, _, _, _)

M(r, s, i, c) ==
    CASE r.t = "set" ->
           IF i < Len(s) /\ s[i + 1] \in r.cs THEN << <<i + 1, c>> >> ELSE <<>>
      [] r.t = "nset" ->
           IF i < Len(s) /\ s[i + 1] \notin r.cs THEN << <<i + 1, c>> >> ELSE <<>>
      [] r.t = "cat" -> MCat(r.rs, 1, s, i, c)
      [] r.t = "alt" -> MAlt(r.rs, 1, s, i, c)
      [] r.t = "rep" ->
           IF r.r.t \in {"set", "nset"} THEN RepOfChar(r, s, i, c)
           ELSE Dedup(MRep(r, 0, s, i, c), 1)
      [] r.t = "grp" ->
           LET res == M(r.r, s, i, c)
           IN [k \in 1..Len(res) |->
                 <<res[k][1], [res[k][2] EXCEPT ![r.n] = <<i, res[k][1]>>]>>]
      [] r.t = "look" ->
           IF (M(r.r, s, i, c) # <<>>) # r.neg THEN << <<i, c>> >> ELSE <<>>
      [] r.t = "bos" -> IF i = 0 THEN << <<i, c>> >> ELSE <<>>
      [] r.t = "eos" ->
           IF i = Len(s) \/ (i = Len(s) - 1 /\ s[i + 1] = "\n")
           THEN << <<i, c>> >> ELSE <<>>
      [] r.t = "eol" ->
           IF i = Len(s) \/ s[i + 1] = "\n" THEN << <<i, c>> >> ELSE <<>>
      [] r.t = "wordb" ->
           IF IsWordAt(s, i) # IsWordAt(s, i + 1) THEN << <<i, c>> >> ELSE <<>>

MCat(rs, k, s, i, c) ==
    IF k > Len(rs) THEN << <<i, c>> >>
    ELSE MCatEach(rs, k, s, M(rs[k], s, i, c), 1)

MCatEach(rs, k, s, res, j) ==
    IF j > Len(res) THEN <<>>
    ELSE MCat(rs, k + 1, s, res[j][1], res[j][2]) \o MCatEach(rs, k, s, res, j + 1)

MAlt(rs, k, s, i, c) ==
    IF k > Len(rs) THEN <<>>
    ELSE M(rs[k], s, i, c) \o MAlt(rs, k + 1, s, i, c)

MRep(r, n, s, i, c) ==
    LET more == IF r.max = -1 \/ n < r.max
                THEN MRepEach(r, n, s, M(r.r, s, i, c), 1)
                ELSE <<>>
        stop == IF n >= r.min THEN << <<i, c>> >> ELSE <<>>
    IN IF r.greedy THEN more \o stop ELSE stop \o more

MRepEach(r, n, s, res, j) ==
    IF j > Len(res) THEN <<>>
    ELSE MRep(r, n + 1, s, res[j][1], res[j][2]) \o MRepEach(r, n, s, res, j + 1)

NoMatch == [start |-> -1, end |-> -1, groups |-> NoGroups]

\* pattern.match(s, i): the match starting at i, or NoMatch
MatchAt(r, s, i) ==
    LET res == M(r, s, i, NoGroups)
    IN IF res = <<>> THEN NoMatch
       ELSE [start |-> i, end |-> res[1][1], groups |-> res[1][2]]

\* pattern.search(s, i): the leftmost match starting at or after i, or NoMatch
RECURSIVE SearchFrom(_, _, _)
SearchFrom(r, s, i) ==
    IF i > Len(s) THEN NoMatch
    ELSE LET m == MatchAt(r, s, i)
         IN IF m.start >= 0 THEN m ELSE SearchFrom(r, s, i + 1)

\* pattern.finditer(s): the non-overlapping matches, left to right
RECURSIVE FindIter(_, _, _)
FindIter(r, s, i) ==
    LET m == SearchFrom(r, s, i)
    IN IF m.start < 0 THEN <<>>
       ELSE <<m>> \o FindIter(r, s, IF m.end > m.start THEN m.end ELSE m.end + 1)

\* match.group(g): the captured text, or None
Group(s, m, g) ==
    IF m.groups[g][1] < 0 THEN None
    ELSE SubSeq(s, m.groups[g][1] + 1, m.groups[g][2])

\* match.group(0)
Group0(s, m) == SubSeq(s, m.start + 1, m.end)

\* a falsy value: None or the empty string
Falsy(v) == v = None \/ v = <<>>

(***************************************************************************)
(* The code-block shield.                                                  *)
(***************************************************************************)
LangTag == Cat(<<Set(Alpha), Star(Set(WordCh \cup {"-"}))>>)

CODE_PATTERN ==
    Alt(<<
      Grp(1, Cat(<<Set({BQ}), Rep(NSet({BQ}), 1, -1, FALSE), Set({BQ})>>)),
      Cat(<<Grp(2, Rep(Lit("~"), 3, -1, TRUE)), Opt(Grp(3, LangTag)),
            Star(Set(SpaceCh)), Lit("\n"),
            Grp(4, Rep(AnyCh, 0, -1, FALSE)), Lit("\n"),
            Grp(5, Rep(Lit("~"), 3, -1, TRUE)), Look(Alt(<<Lit("\n"), Eol>>))>>),
      Cat(<<Grp(6, Rep(Set({BQ}), 3, -1, TRUE)), Opt(Grp(7, LangTag)),
            Star(Set(SpaceCh)), Lit("\n"),
            Grp(8, Rep(AnyCh, 0, -1, FALSE)), Lit("\n"),
            Grp(9, Rep(Set({BQ}), 3, -1, TRUE)), Look(Alt(<<Lit("\n"), Eol>>))>>)
    >>)

\* f"__CODE_BLOCK_{placeholder_counter}__"
Placeholder(n) == Chars("__CODE_BLOCK_") \o Decimal(n) \o Chars("__")

OrEmpty(v) == IF Falsy(v) THEN <<>> ELSE v

\* replace_func's code for one match
SavedCode(s, m) ==
    IF ~Falsy(Group(s, m, 1)) THEN Group(s, m, 1)
    ELSE IF ~Falsy(Group(s, m, 2))
    THEN Group(s, m, 2) \o OrEmpty(Group(s, m, 3)) \o <<"\n">> \o Group(s, m, 4)
           \o <<"\n">> \o Group(s, m, 5)
    ELSE Group(s, m, 6) \o OrEmpty(Group(s, m, 7)) \o <<"\n">> \o Group(s, m, 8)
           \o <<"\n">> \o Group(s, m, 9)

\* CODE_PATTERN.sub(replace_func, content): the text with each match replaced
RECURSIVE SubCode(_, _, _, _)
SubCode(s, ms, k, last) ==
    IF k > Len(ms) THEN From(s, last)
    ELSE SubSeq(s, last + 1, ms[k].start) \o Placeholder(k)
           \o SubCode(s, ms, k + 1, ms[k].end)

save_code_blocks(s) ==
    LET ms == FindIter(CODE_PATTERN, s, 0)
    IN [text |-> SubCode(s, ms, 1, 0),
        blocks |-> [k \in 1..Len(ms) |-> <<Placeholder(k), SavedCode(s, ms[k])>>]]

RECURSIVE restore_code_blocks(_, _)
restore_code_blocks(s, blocks) ==
    IF blocks = <<>> THEN s
    ELSE restore_code_blocks(Replace(s, blocks[1][1], blocks[1][2]), Tail(blocks))

(***************************************************************************)
(* The link classifier.                                                    *)
(***************************************************************************)
COMMON_TLDS ==
    {Chars(w) : w \in
       {"com", "org", "net", "edu", "gov", "mil", "int", "biz", "info", "name", "pro",
        "museum", "coop", "aero", "post", "geo", "kid", "law", "mail", "sco", "web",
        "cn", "uk", "de", "fr", "jp", "au", "ca", "ru", "in", "br", "it", "es", "nl",
        "app", "dev", "io", "ai", "co", "tv", "xyz", "online", "site", "store", "tech",
        "cloud", "space", "blog", "news", "wiki", "shop", "bank", "sport", "game",
        "music", "movie", "photo", "art", "design", "studio", "today", "world",
        "us", "eu", "me", "cc", "la", "pw", "mobi"}}

FILE_EXTS ==
    {Chars(w) : w \in
       {"pdf", "doc", "docx", "xls", "xlsx", "ppt", "pptx",
        "txt", "md", "markdown", "rtf", "log",
        "jpg", "jpeg", "png", "gif", "bmp", "svg", "webp",
        "zip", "rar", "7z", "tar", "gz", "iso",
        "exe", "dll", "bin", "apk", "pkg",
        "mp3", "wav", "flac", "mp4", "avi", "mkv", "mov",
        "css", "js", "json", "xml", "html", "htm",
        "py", "java", "cpp", "c", "h", "go", "rs", "ts", "sh",
        "tmp", "bak", "old", "swp", "lock"}}

Digits1 == Plus(Set(Digit))   \* \d+

private_ip_pattern ==
    Alt(<<
      Cat(<<WordB, Lit("127.0.0.1"), WordB>>),
      Cat(<<WordB, Lit("192.168."), Digits1, Lit("."), Digits1, WordB>>),
      Cat(<<WordB, Lit("10."), Digits1, Lit("."), Digits1, Lit("."), Digits1, WordB>>),
      Cat(<<WordB, Lit("172."),
            Grp(1, Alt(<<Cat(<<Lit("1"), Set({"6", "7", "8", "9"})>>),
                         Cat(<<Lit("2"), Set(Digit)>>),
                         Cat(<<Lit("3"), Set({"0", "1"})>>)>>)),
            Lit("."), Digits1, Lit("."), Digits1, WordB>>)
    >>)

\* ^[a-zA-Z0-9][a-zA-Z0-9._-]*\.([a-zA-Z0-9]{2,6})$
filename_pattern ==
    Cat(<<Bos, Set(AlNum), Star(Set(AlNum \cup {".", "_", "-"})), Lit("."),
          Grp(1, Rep(Set(AlNum), 2, 6, TRUE)), Eos>>)

\* ([a-zA-Z0-9-]{0,61}[a-zA-Z0-9])?
LabelRest(g) == Opt(Grp(g, Cat(<<Rep(Set(AlNum \cup {"-"}), 0, 61, TRUE), Set(AlNum)>>)))

domain_pattern ==
    Cat(<<Bos,
          Star(Cat(<<Set(AlNum), LabelRest(1), Lit(".")>>)),
          Set(AlNum), LabelRest(2),
          Lit("."),
          Set(Alpha), LabelRest(3),
          Opt(Cat(<<Lit(":"), Rep(Set(Digit), 1, 5, TRUE)>>)),
          Opt(Cat(<<Lit("/"), Star(NSet(SpaceCh))>>)),
          Eos>>)

\* s.split(sep)[-1] for a one-character sep
RECURSIVE LastField(_, _)
LastField(s, sep) ==
    LET k == Find(s, <<sep>>, 0)
    IN IF k < 0 THEN s ELSE LastField(From(s, k + 1), sep)

\* step 1: the local and special-scheme exclusion
LocalExcluded(l) ==
    \/ StartsWith(l, Chars("obsidian://"))
    \/ StartsWith(l, Chars("file://"))
    \/ Contains(StrLower(l), Chars("localhost"))
    \/ SearchFrom(private_ip_pattern, l, 0).start >= 0

\* WebPrefix with the tel: scheme forgotten
WebPrefix_without_tel(l) ==
    \E p \in {"http://", "https://", "ftp://", "mailto:"} : StartsWith(l, Chars(p))

\* step 2: a protocol prefix
WebPrefix(l) ==
    \E p \in {"http://", "https://", "ftp://", "mailto:", "tel:"} : StartsWith(l, Chars(p))

\* step 4: a relative or absolute path
LocalPathPrefix(l) ==
    \/ \E p \in {"./", "../", "/"} : StartsWith(l, Chars(p))
    \/ Contains(l, <<"\\">>)
    \/ StartsWith(l, <<"\\", "\\">>)

\* BareNameVerdict with the extension compared as written, not lower-cased
BareNameVerdict_case_sensitive(l) ==
    LET ext == Group(l, MatchAt(filename_pattern, l, 0), 1)
    IN IF ext \in FILE_EXTS THEN FALSE
       ELSE IF ext \in COMMON_TLDS THEN TRUE
       ELSE FALSE

\* step 5: a bare file name, decided by its extension
BareNameVerdict(l) ==
    LET ext == StrLower(Group(l, MatchAt(filename_pattern, l, 0), 1))
    IN IF ext \in FILE_EXTS THEN FALSE
       ELSE IF ext \in COMMON_TLDS THEN TRUE
       ELSE FALSE

\* step 6: the strict domain form with a known top-level domain
DomainVerdict(l) ==
    /\ MatchAt(domain_pattern, l, 0).start >= 0
    /\ StrLower(LastField(l, ".")) \in COMMON_TLDS

\* is_web_link with the web prefixes tested before the local exclusion
is_web_link_prefix_first(raw) ==
    LET l == Strip(raw)
    IN IF l = <<>> THEN FALSE
       ELSE IF WebPrefix(l) THEN TRUE
       ELSE IF StartsWith(l, Chars("//")) THEN TRUE
       ELSE IF LocalExcluded(l) THEN FALSE
       ELSE IF LocalPathPrefix(l) THEN FALSE
       ELSE IF MatchAt(filename_pattern, l, 0).start >= 0 THEN BareNameVerdict(l)
       ELSE DomainVerdict(l)

is_web_link(raw) ==
    LET l == Strip(raw)
    IN IF l = <<>> THEN FALSE
       ELSE IF LocalExcluded(l) THEN FALSE
       ELSE IF WebPrefix(l) THEN TRUE
       ELSE IF StartsWith(l, Chars("//")) THEN TRUE
       ELSE IF LocalPathPrefix(l) THEN FALSE
       ELSE IF MatchAt(filename_pattern, l, 0).start >= 0 THEN BareNameVerdict(l)
       ELSE DomainVerdict(l)

(***************************************************************************)
(* Paths (posixpath) and the file system.                                  *)
(***************************************************************************)
\* s.split(sep) for a one-character sep
RECURSIVE Split(_, _)
Split(s, sep) ==
    LET k == Find(s, <<sep>>, 0)
    IN IF k < 0 THEN <<s>> ELSE <<SubSeq(s, 1, k)>> \o Split(From(s, k + 1), sep)

\* sep.join(parts)
RECURSIVE JoinWith(_, _)
JoinWith(items, sep) ==
    IF items = <<>> THEN <<>>
    ELSE IF Len(items) = 1 THEN items[1]
    ELSE items[1] \o <<sep>> \o JoinWith(Tail(items), sep)

\* os.path.join(a, b)
join(a, b) ==
    IF StartsWith(b, <<"/">>) THEN b
    ELSE IF a = <<>> \/ a[Len(a)] = "/" THEN a \o b
    ELSE a \o <<"/">> \o b

\* the loop of os.path.normpath over the components
RECURSIVE NormComps(_, _, _)
NormComps(comps, new, rooted) ==
    IF comps = <<>> THEN new
    ELSE LET comp == Head(comps)
         IN IF comp = <<>> \/ comp = <<".">> THEN NormComps(Tail(comps), new, rooted)
            ELSE IF \/ comp # <<".", ".">>
                    \/ (~rooted /\ new = <<>>)
                    \/ (new # <<>> /\ new[Len(new)] = <<".", ".">>)
            THEN NormComps(Tail(comps), Append(new, comp), rooted)
            ELSE IF new # <<>>
            THEN NormComps(Tail(comps), SubSeq(new, 1, Len(new) - 1), rooted)
            ELSE NormComps(Tail(comps), new, rooted)

\* os.path.normpath(path)
normpath(path) ==
    IF path = <<>> THEN <<".">>
    ELSE LET slashes == IF ~StartsWith(path, <<"/">>) THEN 0
                        ELSE IF StartsWith(path, <<"/", "/">>)
                                /\ ~StartsWith(path, <<"/", "/", "/">>) THEN 2
                        ELSE 1
             body == JoinWith(NormComps(Split(path, "/"), <<>>, slashes > 0), "/")
             res == [i \in 1..slashes |-> "/"] \o body
         IN IF res = <<>> THEN <<".">> ELSE res

\* the working directory of the process
Cwd == Chars("/")

\* os.path.abspath(path)
abspath(path) == normpath(IF StartsWith(path, <<"/">>) THEN path ELSE join(Cwd, path))

\* the non-empty components of a path
Comps(path) == SelectSeq(Split(path, "/"), LAMBDA x : x # <<>>)

\* len(commonprefix([a, b])) of two component lists
RECURSIVE CommonLen(_, _)
CommonLen(a, b) ==
    IF a = <<>> \/ b = <<>> \/ Head(a) # Head(b) THEN 0
    ELSE 1 + CommonLen(Tail(a), Tail(b))

relpath_keeping_dots(path, start) ==
    IF StartsWith(path, start \o <<"/">>) THEN From(path, Len(start) + 1) ELSE path

\* os.path.relpath(path, start)
relpath(path, start) ==
    LET start_list == Comps(abspath(start))
        path_list == Comps(abspath(path))
        i == CommonLen(start_list, path_list)
        rel_list == [k \in 1..(Len(start_list) - i) |-> <<".", ".">>]
                      \o SubSeq(path_list, i + 1, Len(path_list))
    IN IF rel_list = <<>> THEN <<".">> ELSE JoinWith(rel_list, "/")

\* os.path.basename(p)
basename(p) == LastField(p, "/")

\* s.rstrip('/')
RECURSIVE RStripSlash(_)
RStripSlash(s) ==
    IF s # <<>> /\ s[Len(s)] = "/" THEN RStripSlash(SubSeq(s, 1, Len(s) - 1)) ELSE s

\* os.path.dirname(p)
dirname(p) ==
    LET head == SubSeq(p, 1, Len(p) - Len(basename(p)))
    IN IF head # <<>> /\ \E k \in 1..Len(head) : head[k] # "/" THEN RStripSlash(head)
       ELSE head

\* The file system of a state is the list fl of its regular files, absolute
\* and normalised, in the order in which a top-down walk meets them; its
\* directories are the ancestors of its files.
DirSet(fl) ==
    UNION {{SubSeq(Comps(fl[k]), 1, n) : n \in 0..(Len(Comps(fl[k])) - 1)} : k \in 1..Len(fl)}

\* the component lists of the files
FileComps(fl) == {Comps(fl[k]) : k \in 1..Len(fl)}

\* path resolution by the operating system: the components still to walk from
\* directory cur (a component list), given the directories ds and files fs;
\* the result is the component list of the file reached, or None
RECURSIVE WalkPath(_, _, _, _, _)
WalkPath(ds, fs, cur, comps, atFile) ==
    IF comps = <<>> THEN (IF atFile THEN cur ELSE None)
    ELSE IF atFile THEN None
    ELSE LET comp == Head(comps)
         IN IF comp = <<>> \/ comp = <<".">> THEN WalkPath(ds, fs, cur, Tail(comps), FALSE)
            ELSE IF comp = <<".", ".">>
            THEN WalkPath(ds, fs, IF cur = <<>> THEN cur ELSE SubSeq(cur, 1, Len(cur) - 1),
                          Tail(comps), FALSE)
            ELSE IF Append(cur, comp) \in ds
            THEN WalkPath(ds, fs, Append(cur, comp), Tail(comps), FALSE)
            ELSE IF Append(cur, comp) \in fs
            THEN WalkPath(ds, fs, Append(cur, comp), Tail(comps), TRUE)
            ELSE None

\* os.path.isfile(path) on the file system with directories ds and files fs
IsFileIn(ds, fs, path) ==
    /\ path # <<>>
    /\ WalkPath(ds, fs, IF StartsWith(path, <<"/">>) THEN <<>> ELSE Comps(Cwd),
                Split(path, "/"), FALSE) # None

\* os.path.isfile(path)
isfile(fl, path) == IsFileIn(DirSet(fl), FileComps(fl), path)

(***************************************************************************)
(* The resource resolver.                                                  *)
(***************************************************************************)
\* encode_url_space_only / decode_url_space_only
encode_url_space_only_as_plus(url) == Replace(url, <<" ">>, <<"+">>)

encode_url_space_only(url) == Replace(url, <<" ">>, Chars("%20"))
decode_url_space_only(url) == Replace(url, Chars("%20"), <<" ">>)

\* supported_extensions, flattened in order
all_extensions ==
    <<Chars("md"),
      Chars("png"), Chars("jpg"), Chars("jpeg"), Chars("gif"), Chars("bmp"),
      Chars("avif"), Chars("webp"), Chars("svg"),
      Chars("flac"), Chars("m4a"), Chars("mp3"), Chars("ogg"), Chars("wav"),
      Chars("webm"), Chars("3gp"),
      Chars("mkv"), Chars("mov"), Chars("mp4"), Chars("ogv"), Chars("webm"), Chars("avi"),
      Chars("pdf")>>

\* the first existing file among path.ext1, path.ext2, ..., or None
RECURSIVE FirstWithExt(_, _, _, _)
FirstWithExt(ds, fs, path, k) ==
    IF k > Len(all_extensions) THEN None
    ELSE IF IsFileIn(ds, fs, path \o <<".">> \o all_extensions[k])
    THEN path \o <<".">> \o all_extensions[k]
    ELSE FirstWithExt(ds, fs, path, k + 1)

\* the loop over possible_paths: the first existing file, or None
RECURSIVE FirstCandidateIn(_, _, _)
FirstCandidateIn(ds, fs, paths) ==
    IF paths = <<>> THEN None
    ELSE IF IsFileIn(ds, fs, Head(paths)) THEN Head(paths)
    ELSE LET e == FirstWithExt(ds, fs, Head(paths), 1)
         IN IF e # None THEN e ELSE FirstCandidateIn(ds, fs, Tail(paths))

FirstCandidate(fl, paths) == FirstCandidateIn(DirSet(fl), FileComps(fl), paths)

\* whether file (absolute) lies in the tree that os.walk(top) visits
UnderTop(file, top) ==
    LET t == Comps(abspath(top)) f == Comps(file)
    IN Len(f) > Len(t) /\ SubSeq(f, 1, Len(t)) = t

\* the file name test of the whole-vault search
NameMatches(file, filename) ==
    \/ basename(file) = filename
    \/ \E k \in 1..Len(all_extensions) :
         basename(file) = filename \o <<".">> \o all_extensions[k]

\* the whole-vault search: the first match in walk order, or None
RECURSIVE WalkSearch(_, _, _, _)
WalkSearch(fl, k, source_dir, filename) ==
    IF k > Len(fl) THEN None
    ELSE IF UnderTop(fl[k], source_dir) /\ NameMatches(fl[k], filename) THEN fl[k]
    ELSE WalkSearch(fl, k + 1, source_dir, filename)

PossiblePaths_root_first(source_dir, resource_path, current_note_dir) ==
    <<join(source_dir, resource_path), join(current_note_dir, resource_path),
      normpath(join(source_dir, resource_path)),
      normpath(join(current_note_dir, resource_path))>>

\* possible_paths, for a path that is not rejected
PossiblePaths(source_dir, resource_path, current_note_dir) ==
    <<join(current_note_dir, resource_path), join(source_dir, resource_path)>> \o
    (IF StartsWith(resource_path, <<"/">>)
     THEN <<abspath(join(source_dir, Tail(resource_path)))>>
     ELSE IF StartsWith(resource_path, Chars("./")) \/ StartsWith(resource_path, Chars("../"))
     THEN <<abspath(join(current_note_dir, resource_path))>>
     ELSE <<normpath(join(source_dir, resource_path)),
            normpath(join(current_note_dir, resource_path))>>)

\* the check that a ./ or ../ path stays inside the repository
OutOfRepository(source_dir, resource_path, current_note_dir) ==
    /\ ~StartsWith(resource_path, <<"/">>)
    /\ StartsWith(resource_path, Chars("./")) \/ StartsWith(resource_path, Chars("../"))
    /\ ~StartsWith(abspath(join(current_note_dir, resource_path)), abspath(source_dir))

\* the body of find_resource_file after a cache miss: the value it stores and returns
ResolveMiss(fl, source_dir, resource_path, current_note_dir) ==
    IF OutOfRepository(source_dir, resource_path, current_note_dir) THEN None
    ELSE LET hit == FirstCandidate(fl, PossiblePaths(source_dir, resource_path, current_note_dir))
             found == WalkSearch(fl, 1, source_dir, basename(resource_path))
         IN IF hit # None THEN relpath(hit, source_dir)
            ELSE IF found # None THEN relpath(found, source_dir)
            ELSE None

\* whether a cache miss of this call reaches a file system test
TouchesFileSystem(source_dir, resource_path, current_note_dir) ==
    ~OutOfRepository(source_dir, resource_path, current_note_dir)

\* resource_cache[cache_key] = value
CachePut(cache, key, value) ==
    [k \in DOMAIN cache \cup {key} |-> IF k = key THEN value ELSE cache[k]]

\* StoreResult that keeps no record of a file not found
StoreResult_found_only(cache, key, value) ==
    IF value = None THEN cache ELSE CachePut(cache, key, value)

\* the stores find_resource_file makes before it returns value
StoreResult(cache, key, value) == CachePut(cache, key, value)

\* find_resource_file(source_dir, resource_path, current_note_dir) on file
\* system fl with resource_cache = cache: the value returned, the cache left
\* behind, and whether the file system was consulted
find_resource_file(fl, cache, source_dir, raw_path, current_note_dir) ==
    LET resource_path == decode_url_space_only(raw_path)
        cache_key == <<resource_path, current_note_dir>>
        value == ResolveMiss(fl, source_dir, resource_path, current_note_dir)
    IN IF cache_key \in DOMAIN cache
       THEN [value |-> cache[cache_key], cache |-> cache, probed |-> FALSE]
       ELSE [value |-> value,
             cache |-> StoreResult(cache, cache_key, value),
             probed |-> TouchesFileSystem(source_dir, resource_path, current_note_dir)]

(***************************************************************************)
(* The link parsers.                                                       *)
(***************************************************************************)
SizeSpec_width_only == Rep(Set(Digit), 1, 4, TRUE)

SizeSpec ==   \* \d{1,4}(?:x\d{1,4})?
    Cat(<<Rep(Set(Digit), 1, 4, TRUE), Opt(Cat(<<Lit("x"), Rep(Set(Digit), 1, 4, TRUE)>>))>>)

Spaces0 == Star(Set(SpaceCh))   \* \s*

wiki_link_pattern ==
    Cat(<<
      Grp(1, Opt(Lit("!"))),
      Lit("[["),
      Opt(Cat(<<Grp(2, Rep(NSet({"]", "|", "\n", "#", "^"}), 1, -1, FALSE)), Spaces0>>)),
      Opt(Cat(<<Lit("#"),
                Alt(<<Cat(<<NLook(Lit("^")),
                            Grp(3, Plus(NSet({"]", "|", "\n", "#", "^"})))>>),
                      Cat(<<Lit("^"), Grp(4, Plus(NSet({"]", "|", "\n", "#"})))>>)>>)>>)),
      Opt(Cat(<<Spaces0, Lit("|"), Spaces0, Grp(5, SizeSpec)>>)),
      Opt(Cat(<<Spaces0, Lit("|"), Spaces0, Grp(6, Plus(NSet({"]", "\n", "|"})))>>)),
      Lit("]]")
    >>)

markdown_link_pattern_caret_in_title ==
    Cat(<<
      Opt(Grp(1, Lit("!"))),
      Lit("["),
      Grp(2, Rep(NSet({"]", "|", "\n"}), 0, -1, FALSE)), Spaces0,
      Opt(Cat(<<Spaces0, Lit("|"), Spaces0, Grp(3, SizeSpec)>>)),
      Lit("]"),
      Lit("("),
      Opt(Grp(4, Rep(NSet({"(", ")", "\n", "#", "^"}), 1, -1, FALSE))),
      Opt(Cat(<<Lit("#"),
                Alt(<<Grp(5, Plus(NSet({"(", ")", "\n", "#"}))),
                      Cat(<<Lit("^"), Grp(6, Plus(NSet({"(", ")", "\n", "#"})))>>)>>)>>)),
      Lit(")")
    >>)

markdown_link_pattern ==
    Cat(<<
      Opt(Grp(1, Lit("!"))),
      Lit("["),
      Grp(2, Rep(NSet({"]", "|", "\n"}), 0, -1, FALSE)), Spaces0,
      Opt(Cat(<<Spaces0, Lit("|"), Spaces0, Grp(3, SizeSpec)>>)),
      Lit("]"),
      Lit("("),
      Opt(Grp(4, Rep(NSet({"(", ")", "\n", "#", "^"}), 1, -1, FALSE))),
      Opt(Cat(<<Lit("#"),
                Alt(<<Cat(<<NLook(Lit("^")),
                            Grp(5, Plus(NSet({"(", ")", "\n", "#", "^"})))>>),
                      Cat(<<Lit("^"), Grp(6, Plus(NSet({"(", ")", "\n", "#"})))>>)>>)>>)),
      Lit(")")
    >>)

\* re.match(r'^\d{1,4}(?:x\d{1,4})?$', text)
IsSizeText(text) == MatchAt(Cat(<<Bos, SizeSpec, Eos>>), text, 0).start >= 0

parse_desc_size_never_size(raw_desc_or_size, size_group) ==
    <<raw_desc_or_size, IF Falsy(size_group) THEN None ELSE size_group>>

\* parse_desc_size: <<desc, size>>
parse_desc_size(raw_desc_or_size, size_group) ==
    IF Falsy(size_group)
    THEN IF ~Falsy(raw_desc_or_size) /\ IsSizeText(raw_desc_or_size)
         THEN <<None, raw_desc_or_size>>
         ELSE <<raw_desc_or_size, None>>
    ELSE <<raw_desc_or_size, size_group>>

\* the record extract_wiki_links builds for one regex match
WikiRecord(text, m) ==
    LET desc == Group(text, m, 6)
        size == Group(text, m, 5)
        both == ~Falsy(desc) /\ ~Falsy(size)
    IN [full_match |-> Group0(text, m),
        type |-> "wiki",
        embed |-> ~Falsy(Group(text, m, 1)),
        path |-> Group(text, m, 2),
        title |-> Group(text, m, 3),
        block_id |-> Group(text, m, 4),
        desc |-> IF both THEN <<"a">> \o desc \o <<"b">> ELSE desc,
        size |-> IF both THEN <<"c">> \o size \o <<"d">> ELSE size,
        start |-> m.start,
        end |-> m.end]

extract_wiki_links(text) ==
    LET ms == FindIter(wiki_link_pattern, text, 0)
    IN [k \in 1..Len(ms) |-> WikiRecord(text, ms[k])]

\* the record extract_markdown_links builds for one regex match
MarkdownRecord(text, m) ==
    LET ds == parse_desc_size(Group(text, m, 2), Group(text, m, 3))
    IN [full_match |-> Group0(text, m),
        type |-> "markdown",
        embed |-> ~Falsy(Group(text, m, 1)),
        path |-> Group(text, m, 4),
        title |-> Group(text, m, 5),
        block_id |-> Group(text, m, 6),
        desc |-> ds[1],
        size |-> ds[2],
        start |-> m.start,
        end |-> m.end]

extract_markdown_links(text) ==
    LET ms == FindIter(markdown_link_pattern, text, 0)
    IN [k \in 1..Len(ms) |-> MarkdownRecord(text, ms[k])]

(***************************************************************************)
(* The rewriters.  Each takes the file system, the resource cache, the     *)
(* note's path and the text, and gives the new text, the cache left behind *)
(* and the resources it warned about.                                      *)
(***************************************************************************)
target_note_dir == Chars("/vault")
internal_link_prefix == <<>>
markdown_link_prefix == Chars("/")
blog_link_prefix == Chars("https://gitee.com/quillnk/linkres/raw/master/obsidian/")

image_extensions == {Chars(w) : w \in {"png", "jpg", "jpeg", "gif", "bmp", "avif", "webp", "svg"}}
audio_extensions == {Chars(w) : w \in {"flac", "m4a", "mp3", "ogg", "wav", "webm", "3gp"}}
video_extensions == {Chars(w) : w \in {"mkv", "mov", "mp4", "ogv", "webm", "avi"}}

get_file_type(file_path) ==
    LET ext == IF Contains(file_path, <<".">>) THEN StrLower(LastField(file_path, ".")) ELSE <<>>
    IN IF ext = Chars("md") THEN "markdown"
       ELSE IF ext \in image_extensions THEN "image"
       ELSE IF ext \in audio_extensions THEN "audio"
       ELSE IF ext \in video_extensions THEN "video"
       ELSE IF ext = Chars("pdf") THEN "pdf"
       ELSE "other"

\* the bracket text of a rewritten link: the name, the description and size, or the size
LinkLabel(match, resource_name) ==
    IF Falsy(match.desc) /\ Falsy(match.size) THEN resource_name
    ELSE IF ~Falsy(match.desc)
    THEN match.desc \o (IF ~Falsy(match.size) THEN <<"|">> \o match.size ELSE <<>>)
    ELSE match.size

LinkOpen(match) == IF match.embed THEN Chars("![") ELSE Chars("[")

\* rel_path = resource_relpath.replace('\\', '/')
ForwardSlashes(rel) == Replace(rel, <<"\\">>, <<"/">>)

SpaceNormalised(url) == encode_url_space_only(decode_url_space_only(url))

\* the fragment convert_wiki_links appends to the URL
WikiFragment(match) ==
    IF ~Falsy(match.title) /\ Falsy(match.block_id) THEN <<"#">> \o match.title
    ELSE IF Falsy(match.title) /\ ~Falsy(match.block_id) THEN Chars("#^") \o match.block_id
    ELSE <<>>

MarkdownFragment_with_block_id(match) ==
    IF ~Falsy(match.title) THEN <<"#">> \o match.title
    ELSE IF ~Falsy(match.block_id) THEN Chars("#^") \o match.block_id
    ELSE <<>>

\* the fragment the Markdown rewriters append to the URL
MarkdownFragment(match) ==
    IF ~Falsy(match.title) /\ Falsy(match.block_id) THEN <<"#">> \o match.title ELSE <<>>

\* the link convert_wiki_links writes for a resolved match
WikiRewritten(match, resource_name, resource_relpath) ==
    LinkOpen(match) \o LinkLabel(match, resource_name) \o Chars("](")
      \o SpaceNormalised(internal_link_prefix \o ForwardSlashes(resource_relpath)
                           \o WikiFragment(match))
      \o Chars(")")

\* the link convert_markdown_links writes for a resolved match
MarkdownRewritten(match, resource_name, resource_relpath) ==
    LinkOpen(match) \o LinkLabel(match, resource_name) \o Chars("](")
      \o SpaceNormalised(markdown_link_prefix \o ForwardSlashes(resource_relpath)
                           \o MarkdownFragment(match))
      \o Chars(")")

\* width and height of a size text
WidthOf(size) == IF Falsy(size) THEN None ELSE Split(size, "x")[1]
HeightOf(size) ==
    IF Falsy(size) \/ ~Contains(size, <<"x">>) THEN None ELSE Split(size, "x")[2]

Attr(name, value) == <<" ">> \o Chars(name) \o Chars("=\"") \o value \o Chars("\"")

\* the text convert_markdown_links_blog writes for a resolved match
BlogRewritten(match, resource_name, resource_relpath) ==
    LET full_url == SpaceNormalised(blog_link_prefix \o ForwardSlashes(resource_relpath)
                                      \o MarkdownFragment(match))
        width == WidthOf(match.size)
        height == HeightOf(match.size)
        file_type == get_file_type(resource_name)
        alt_text == decode_url_space_only(IF ~Falsy(match.desc) THEN match.desc
                                          ELSE resource_name)
        file_ext == LastField(resource_name, ".")
        plain == Chars("[") \o alt_text \o Chars("](") \o full_url \o Chars(")")
    IN IF file_type = "image"
       THEN IF match.embed
            THEN IF ~Falsy(width) /\ ~Falsy(height)
                 THEN Chars("<img") \o Attr("src", full_url) \o Attr("width", width)
                        \o Attr("height", height) \o Attr("alt", alt_text) \o Chars(" />")
                 ELSE IF ~Falsy(width)
                 THEN Chars("<img") \o Attr("src", full_url) \o Attr("width", width)
                        \o Attr("alt", alt_text) \o Chars(" />")
                 ELSE IF ~Falsy(height)
                 THEN Chars("<img") \o Attr("src", full_url) \o Attr("height", height)
                        \o Attr("alt", alt_text) \o Chars(" />")
                 ELSE Chars("<img") \o Attr("src", full_url) \o Attr("alt", alt_text)
                        \o Chars(" />")
            ELSE IF ~Falsy(width) /\ ~Falsy(height)
                 THEN Chars("[") \o alt_text \o <<"|">> \o width \o <<"x">> \o height
                        \o Chars("](") \o full_url \o Chars(")")
                 ELSE IF ~Falsy(width)
                 THEN Chars("[") \o alt_text \o <<"|">> \o width
                        \o Chars("](") \o full_url \o Chars(")")
                 ELSE IF ~Falsy(height)
                 THEN Chars("[") \o alt_text \o <<"|">> \o height
                        \o Chars("](") \o full_url \o Chars(")")
                 ELSE plain
       ELSE IF file_type = "audio"
       THEN IF match.embed
            THEN Chars("<audio controls><source") \o Attr("src", full_url)
                   \o Chars(" type=\"audio/") \o file_ext \o Chars("\">") \o alt_text
                   \o Chars("</audio>")
            ELSE plain
       ELSE IF file_type = "video"
       THEN IF match.embed
            THEN Chars("<video controls><source") \o Attr("src", full_url)
                   \o Chars(" type=\"video/") \o file_ext \o Chars("\">") \o alt_text
                   \o Chars("</video>")
            ELSE plain
       ELSE IF file_type = "pdf"
       THEN IF match.embed
            THEN IF ~Falsy(width)
                 THEN Chars("<embed") \o Attr("src", full_url) \o Attr("width", width)
                        \o Chars(" type=\"application/pdf\">")
                 ELSE IF ~Falsy(height)
                 THEN Chars("<embed") \o Attr("src", full_url) \o Attr("height", height)
                        \o Chars(" type=\"application/pdf\">")
                 ELSE Chars("<embed") \o Attr("src", full_url)
                        \o Chars(" type=\"application/pdf\">")
            ELSE plain
       ELSE match.full_match

\* whether the Markdown rewriters treat the path as a local resource
IsLocalResource(resource_path) ==
    ~is_web_link(resource_path) /\ ~StartsWith(resource_path, Chars("obsidian://"))

\* whether the wiki rewriter treats the path as a local resource
WikiIsLocalResource(resource_path) == TRUE

\* the record kept of one call of find_resource_file and of its outcome
CallRecord(by, raw_path, current_note_dir, found) ==
    [by |-> by, path |-> raw_path, dir |-> current_note_dir,
     value |-> found.value, probed |-> found.probed]

\* the path a match names: its own, or the note's for a link to a heading
MatchPath(note_file_path, match) ==
    IF Falsy(match.path) THEN note_file_path ELSE match.path

\* whether the rewriter goes on to resolve the match
IsResolved(kind, note_file_path, match) ==
    IF kind = "wiki" THEN WikiIsLocalResource(MatchPath(note_file_path, match))
    ELSE IsLocalResource(MatchPath(note_file_path, match))

\* resource_path, as the rewriter hands it to find_resource_file
ResourcePath(kind, note_file_path, match) ==
    IF kind = "wiki" THEN MatchPath(note_file_path, match)
    ELSE decode_url_space_only(MatchPath(note_file_path, match))

Emitted_dropping_unresolved(kind, match, local, resource_name, resource_relpath) ==
    IF ~local THEN match.full_match
    ELSE IF Falsy(resource_relpath) THEN <<>>
    ELSE IF kind = "wiki" THEN WikiRewritten(match, resource_name, resource_relpath)
    ELSE IF kind = "markdown" THEN MarkdownRewritten(match, resource_name, resource_relpath)
    ELSE BlogRewritten(match, resource_name, resource_relpath)

\* the text a rewriter emits for one match
Emitted(kind, match, local, resource_name, resource_relpath) ==
    IF ~local \/ Falsy(resource_relpath) THEN match.full_match
    ELSE IF kind = "wiki" THEN WikiRewritten(match, resource_name, resource_relpath)
    ELSE IF kind = "markdown" THEN MarkdownRewritten(match, resource_name, resource_relpath)
    ELSE BlogRewritten(match, resource_name, resource_relpath)

\* the three lines logger.warning writes for a resource that was not found
Warning(resource_path, full_path) == [path |-> resource_path, link |-> full_path]

\* the body of a rewriter's loop for one match; acc holds the parts list and
\* its parts joined so far, the cache, the warnings and the resolver calls
RewriteMatch_dropping_before(kind, match, before, acc, local, resource_path, current_note_dir, found) ==
    [text |-> acc.text \o Emitted(kind, match, local, basename(resource_path), found.value),
     parts |-> acc.parts \o
                <<<<>>, Emitted(kind, match, local, basename(resource_path), found.value)>>,
     cache |-> IF local THEN found.cache ELSE acc.cache,
     warnings |-> IF local /\ Falsy(found.value)
                  THEN Append(acc.warnings, Warning(resource_path, match.full_match))
                  ELSE acc.warnings,
     calls |-> IF local
               THEN Append(acc.calls, CallRecord(kind, resource_path, current_note_dir, found))
               ELSE acc.calls]

RewriteMatch(kind, match, before, acc, local, resource_path, current_note_dir, found) ==
    [text |-> acc.text \o before
                \o Emitted(kind, match, local, basename(resource_path), found.value),
     parts |-> acc.parts \o
                <<before, Emitted(kind, match, local, basename(resource_path), found.value)>>,
     cache |-> IF local THEN found.cache ELSE acc.cache,
     warnings |-> IF local /\ Falsy(found.value)
                  THEN Append(acc.warnings, Warning(resource_path, match.full_match))
                  ELSE acc.warnings,
     calls |-> IF local
               THEN Append(acc.calls, CallRecord(kind, resource_path, current_note_dir, found))
               ELSE acc.calls]

\* a rewriter's loop over the matches, from match k on
RECURSIVE RewriteLoop(_, _, _, _, _, _, _, _)
RewriteLoop(kind, fl, note_file_path, text, matches, k, last_end, acc) ==
    IF k > Len(matches)
    THEN [acc EXCEPT !.text = @ \o From(text, last_end),
                     !.parts = IF matches = <<>> THEN <<>>
                               ELSE Append(@, From(text, last_end))]
    ELSE RewriteLoop(kind, fl, note_file_path, text, matches, k + 1, matches[k].end,
           RewriteMatch(kind, matches[k], SubSeq(text, last_end + 1, matches[k].start), acc,
             IsResolved(kind, note_file_path, matches[k]),
             ResourcePath(kind, note_file_path, matches[k]),
             dirname(note_file_path),
             find_resource_file(fl, acc.cache, target_note_dir,
                                ResourcePath(kind, note_file_path, matches[k]),
                                dirname(note_file_path))))

Rewrite(kind, fl, cache, note_file_path, text, matches) ==
    RewriteLoop(kind, fl, note_file_path, text, matches, 1, 0,
                [text |-> <<>>, parts |-> <<>>, cache |-> cache, warnings |-> <<>>,
                 calls |-> <<>>])

convert_wiki_links(fl, cache, note_file_path, text) ==
    Rewrite("wiki", fl, cache, note_file_path, text, extract_wiki_links(text))

convert_markdown_links(fl, cache, note_file_path, text) ==
    Rewrite("markdown", fl, cache, note_file_path, text, extract_markdown_links(text))

convert_markdown_links_blog(fl, cache, note_file_path, text) ==
    Rewrite("blog", fl, cache, note_file_path, text, extract_markdown_links(text))

(***************************************************************************)
(* Specification SpecWeb: one call of is_web_link on one link.  The answer  *)
(* is kept under the names that src/example/is_web_link.py prints for the  *)
(* two results of the function.                                            *)
(***************************************************************************)
Pending == "pending"
WebLink == "Web Link"
LocalLink == "Local Link"

LinkPrefixes ==
    {"", "http://", "https://", "ftp://", "mailto:", "tel:", "//", "./", "../", "/",
     "obsidian://", "file://", " ", "x"}

LinkHosts ==
    {"", "example.com", "EXAMPLE.COM", "www.example.org", "sub.domain.co.uk", "my.blog",
     "report.pdf", "Note.MD", "archive.tar.gz", "x.yz", "a.b", "my_file.com", "a-.io",
     "_x.com", "-x.com", ".x.com", "index.html",
     "localhost", "LocalHost", "127.0.0.1", "192.168.1.1", "10.0.0.1", "172.16.0.1",
     "172.31.255.255", "172.32.0.1", "172.15.0.1", "110.0.0.1", "8.8.8.8",
     "README", "user@example.com", "+123456789"}

LinkSuffixes == {"", ":8080", "/path?query=1#hash", ":3000/a.io", "\\x.com", " ", "/"}

Links == {Chars(p) \o Chars(h) \o Chars(x) : p \in LinkPrefixes, h \in LinkHosts, x \in LinkSuffixes}

InitWeb ==
    /\ link \in Links
    /\ answer = Pending
    /\ pc = "idle" /\ content = <<>> /\ updated_content = <<>> /\ code_blocks = <<>>
    /\ files = <<>> /\ resource_cache = <<>> /\ calls = <<>>
    /\ parts = <<>> /\ warnings = <<>>
    /\ NoBatch /\ NoManager /\ parsed = <<>>

Classify ==
    /\ answer = Pending
    /\ answer' = IF is_web_link(link) THEN WebLink ELSE LocalLink
    /\ UNCHANGED <<link, tzVars, parseVars, docVars, fsVars, logVars, batchVars>>

NextWeb == Classify

SpecWeb == InitWeb /\ [][NextWeb]_vars

\* the link as is_web_link sees it after trimming
Trimmed == Strip(link)

IsNumber(t) == t # <<>> /\ \A k \in 1..Len(t) : t[k] \in Digit

\* a dotted quad that is a loopback or private IPv4 address
PrivateQuad(f) ==
    /\ Len(f) = 4
    /\ \A k \in 1..4 : IsNumber(f[k])
    /\ \/ f = <<Chars("127"), Chars("0"), Chars("0"), Chars("1")>>
       \/ f[1] = Chars("192") /\ f[2] = Chars("168")
       \/ f[1] = Chars("10")
       \/ f[1] = Chars("172") /\ f[2] \in {Decimal(n) : n \in 16..31}

\* s holds a loopback or private address as a token of its own
HasPrivateAddress(s) ==
    \E i \in 1..Len(s) : \E j \in i..Len(s) :
        /\ s[i] \in Digit /\ s[j] \in Digit
        /\ ~IsWordAt(s, i - 1) /\ ~IsWordAt(s, j + 1)
        /\ \A k \in i..j : s[k] \in Digit \cup {"."}
        /\ PrivateQuad(Split(SubSeq(s, i, j), "."))

\* the local and private exclusion as the specification words it
SpecExcluded(s) ==
    \/ StartsWith(s, Chars("obsidian://"))
    \/ StartsWith(s, Chars("file://"))
    \/ \E k \in 0..(Len(s) - 9) : StrLower(SubSeq(s, k + 1, k + 9)) = Chars("localhost")
    \/ HasPrivateAddress(s)

SpecWebPrefix(s) ==
    \E p \in {"http://", "https://", "ftp://", "mailto:", "tel:", "//"} : StartsWith(s, Chars(p))

SpecLocalPrefix(s) ==
    \/ \E p \in {"./", "../", "/"} : StartsWith(s, Chars(p))
    \/ \E k \in 1..Len(s) : s[k] = "\\"

\* C6: is_web_link is false for every link that starts with obsidian:// or
\* file://, holds "localhost" in any letter case or holds a loopback or
\* private IPv4 address, also when the link starts with a web prefix.
C6_ExclusionFirst ==
    (answer # Pending /\ SpecExcluded(link)) => answer = LocalLink

\* C6 witness: a link with a web prefix and a private address was classified.
C6_Witness ==
    /\ answer = LocalLink
    /\ StartsWith(link, Chars("https://"))
    /\ HasPrivateAddress(link)

\* C9: empty or blank input is not a web link; any other link outside the
\* local exclusion is a web link when it (trimmed) starts with http://,
\* https://, ftp://, mailto:, tel: or //, and otherwise is not one when it
\* starts with ./, ../ or / or holds a backslash.
C9_PrefixRules ==
    answer # Pending =>
      /\ Trimmed = <<>> => answer = LocalLink
      /\ (Trimmed # <<>> /\ ~SpecExcluded(Trimmed)) =>
           /\ SpecWebPrefix(Trimmed) => answer = WebLink
           /\ (~SpecWebPrefix(Trimmed) /\ SpecLocalPrefix(Trimmed)) => answer = LocalLink

\* C9 witness: a link with surrounding blanks and a web prefix was classified
\* a web link.
C9_Witness ==
    /\ answer = WebLink
    /\ link # Trimmed
    /\ StartsWith(Trimmed, Chars("tel:"))

\* a label of a domain name: letters, digits and hyphens, neither first nor last a hyphen
IsLabel(t) ==
    /\ t # <<>> /\ Len(t) <= 63
    /\ \A k \in 1..Len(t) : t[k] \in AlNum \cup {"-"}
    /\ t[1] \in AlNum /\ t[Len(t)] \in AlNum

\* a multi-label domain name whose final label starts with a letter
IsDomain(d) ==
    LET f == Split(d, ".")
    IN /\ Len(f) >= 2
       /\ \A k \in 1..Len(f) : IsLabel(f[k])
       /\ f[Len(f)][1] \in Alpha

\* the part of s before its port or path
DomainPart(s) ==
    LET cut == {k \in 1..Len(s) : s[k] \in {":", "/"}}
    IN IF cut = {} THEN s
       ELSE SubSeq(s, 1, (CHOOSE k \in cut : \A h \in cut : k <= h) - 1)

\* an optional port of 1 to 5 digits, then an optional path without blanks
IsPortAndPath(r) ==
    LET slash == Find(r, <<"/">>, 0)
        port == IF slash < 0 THEN r ELSE SubSeq(r, 1, slash)
        path == IF slash < 0 THEN <<>> ELSE From(r, slash)
    IN /\ port = <<>> \/ (port[1] = ":" /\ IsNumber(Tail(port)) /\ Len(port) <= 6)
       /\ \A k \in 1..Len(path) : path[k] \notin SpaceCh

\* domain, domain:port, domain/path or domain:port/path
IsDomainForm(s) ==
    /\ IsDomain(DomainPart(s))
    /\ IsPortAndPath(From(s, Len(DomainPart(s))))

FinalLabel(d) == StrLower(LastField(d, "."))

\* C7: a link of the form domain, domain:port or domain/path is a web link
\* exactly when the final label of its domain is in the TLD allowlist; a
\* port or a path does not change the classification of the bare domain.
C7_DomainRule ==
    (answer # Pending /\ IsDomainForm(link) /\ ~SpecExcluded(link)) =>
       (answer = WebLink <=> FinalLabel(DomainPart(link)) \in COMMON_TLDS)

\* the bare name.ext shape as worded: letters, digits, '.', '_' and '-', then
\* a dot and an extension of 2 to 6 letters and digits
IsBareName(s) ==
    LET ext == LastField(s, ".")
    IN /\ \A k \in 1..Len(s) : s[k] \in AlNum \cup {".", "_", "-"}
       /\ Len(ext) >= 2 /\ Len(ext) <= 6
       /\ \A k \in 1..Len(ext) : ext[k] \in AlNum
       /\ Len(s) >= Len(ext) + 2

\* the verdict of the bare-name rule for the extension of s
ExtensionVerdict(s) ==
    LET ext == StrLower(LastField(s, "."))
    IN IF ext \in FILE_EXTS THEN LocalLink
       ELSE IF ext \in COMMON_TLDS THEN WebLink
       ELSE LocalLink

\* C8 (as claimed): every link of the bare name.ext shape that no earlier rule
\* catches is classified by its lower-cased extension: local when it is in
\* the file-extension denylist, web when it is in the TLD allowlist, local
\* otherwise.
C8_AsClaimed ==
    (answer # Pending /\ IsBareName(link) /\ ~SpecExcluded(link)) =>
       answer = ExtensionVerdict(link)

\* C8 (amended): the same for the bare names that begin with a letter or a
\* digit; the rule is decided before the domain grammar, so that a name the
\* grammar rejects (my_file.com) is still classified by its extension.
C8_BareNameRule ==
    (answer # Pending /\ IsBareName(link) /\ link[1] \in AlNum /\ ~SpecExcluded(link)) =>
       answer = ExtensionVerdict(link)

\* C8 witness: a bare name that is no domain name was classified a web link
\* by its extension.
C8_Witness ==
    /\ answer = WebLink
    /\ IsBareName(link) /\ link[1] \in AlNum
    /\ ~IsDomain(link)

(***************************************************************************)
(* Specification SpecShield: the script of src/example/match_code_blocks1.py, *)
(* which shields the code of a text and restores it at once.               *)
(***************************************************************************)
\* the longest fence of the texts explored
MaxFence == 4

Run(ch, n) == [k \in 1..n |-> ch]

\* one fenced block: fence, language tag, padding, newline, body, newline, fence
Fenced(ch, n, lang, pad, body) ==
    Run(ch, n) \o Chars(lang) \o Chars(pad) \o <<"\n">> \o Chars(body) \o <<"\n">> \o Run(ch, n)

FenceChars == {BQ, "~"}
FenceLangs == {"", "py"}
FencePads == {"", " "}
ShieldBodies == {"x", "\nx", "[[not a link]]"}
Before == {"", "a\n"}
After == {"", "\nb"}

\* texts with one inline code span or one fenced block: balanced, not
\* nested, free of placeholder tokens
ShieldSpans ==
    {<<BQ, "x", BQ>>} \cup
    {Fenced(ch, n, lang, pad, body) :
       ch \in FenceChars, n \in 3..MaxFence, lang \in FenceLangs, pad \in FencePads,
       body \in ShieldBodies}

ShieldTexts == {Chars(b) \o sp \o Chars(a) : b \in Before, sp \in ShieldSpans, a \in After}

\* a fenced block of n fence characters whose body is a fenced block of
\* fewer of the same character
Nested(ch, n, lang, m, inner, body) ==
    Run(ch, n) \o Chars(lang) \o <<"\n">> \o Fenced(ch, m, inner, "", body) \o <<"\n">>
      \o Run(ch, n)

\* the lengths of an outer fence and of the shorter fence inside it
Depths == {d \in (4..MaxFence) \X (3..MaxFence) : d[2] < d[1]}

NestedSpans ==
    {Nested(ch, d[1], lang, d[2], inner, body) :
       ch \in FenceChars, d \in Depths, lang \in FenceLangs, inner \in FenceLangs,
       body \in {"x", "[[not a link]]"}}

NestedTexts == {Chars(b) \o sp \o Chars(a) : b \in Before, sp \in NestedSpans, a \in After}

InitShield ==
    /\ content \in ShieldTexts \cup NestedTexts
    /\ updated_content = content
    /\ code_blocks = <<>>
    /\ pc = "read"
    /\ files = <<>> /\ resource_cache = <<>> /\ calls = <<>>
    /\ link = <<>> /\ answer = Pending
    /\ parts = <<>> /\ warnings = <<>>
    /\ NoBatch /\ NoManager /\ parsed = <<>>

\* the assignment of save_code_blocks' result
Shielded(saved) ==
    /\ updated_content' = saved.text
    /\ code_blocks' = saved.blocks

\* content, code_blocks = save_code_blocks(content)
Save ==
    /\ pc = "read"
    /\ Shielded(save_code_blocks(updated_content))
    /\ pc' = "saved"
    /\ UNCHANGED <<content, fsVars, linkVars, tzVars, parseVars, logVars, batchVars>>

\* content = restore_code_blocks(content, code_blocks)
Restore ==
    /\ pc = "saved"
    /\ updated_content' = restore_code_blocks(updated_content, code_blocks)
    /\ pc' = "restored"
    /\ UNCHANGED <<content, code_blocks, fsVars, linkVars, tzVars, parseVars, logVars, batchVars>>

NextShield == Save \/ Restore

SpecShield == InitShield /\ [][NextShield]_vars

\* C1: for every text whose fences and backticks are balanced and not nested
\* and which holds no placeholder token, restoring what save_code_blocks
\* produced gives the text back character for character.
C1_RoundTrip ==
    (pc = "restored" /\ content \in ShieldTexts) => updated_content = content

(***************************************************************************)
(* Specification SpecResolve: find_resource_file called again and again    *)
(* within one run, against one file system and the one resource_cache.     *)
(***************************************************************************)
\* the number of calls of one run explored
MaxCalls == 2

\* file systems in os.walk order, each with the (resource_path,
\* current_note_dir) arguments explored on it: a vault alone; a vault with a
\* sibling directory and a directory elsewhere on the disk; a vault with
\* files of one name under the root and under the note's directory
ResolveCases ==
    {[files |-> <<Chars("/vault/notes/a.md"), Chars("/vault/assets/img.png")>>,
      args |-> {<<"/assets/img.png", "/vault/notes">>,
                <<"../assets/img.png", "/vault/notes">>,
                <<"img.png", "/vault/notes">>,
                <<"img.png", "/vault">>,
                <<"a%20b.png", "/vault/notes">>,
                <<"a b.png", "/vault/notes">>,
                <<"missing.png", "/vault/notes">>}],
     [files |-> <<Chars("/vault/notes/a.md"), Chars("/vault/assets/img.png"),
                  Chars("/vault/assets/a b.png"), Chars("/vault2/x.png"),
                  Chars("/out/s.png")>>,
      args |-> {<<"/../out/s.png", "/vault/notes">>,
                <<"/out/s.png", "/vault/notes">>,
                <<"../../vault2/x.png", "/vault/notes">>,
                <<"../../out/s.png", "/vault/notes">>,
                <<"a%20b.png", "/vault/notes">>,
                <<"a b.png", "/vault/notes">>,
                <<"missing.png", "/vault/notes">>}],
     [files |-> <<Chars("/vault/img"), Chars("/vault/img.png"), Chars("/vault/ghost/x.md"),
                  Chars("/vault/notes/a.md"), Chars("/vault/notes/img.png")>>,
      args |-> {<<"./img.png", "/vault/notes">>,
                <<"./ghost/../img.png", "/vault/notes">>,
                <<"/img.png", "/vault/notes">>,
                <<"img.png", "/vault/notes">>,
                <<"img", "/vault/notes">>,
                <<"x", "/vault/notes">>}]}

FileSystems == {c.files : c \in ResolveCases}

\* the arguments explored on file system fl
ResolveArgs(fl) ==
    {<<Chars(a[1]), Chars(a[2])>> : a \in UNION {c.args : c \in {d \in ResolveCases : d.files = fl}}}

InitResolve ==
    /\ files \in FileSystems
    /\ resource_cache = <<>>
    /\ calls = <<>>
    /\ pc = "idle" /\ content = <<>> /\ updated_content = <<>> /\ code_blocks = <<>>
    /\ link = <<>> /\ answer = Pending
    /\ parts = <<>> /\ warnings = <<>>
    /\ NoBatch /\ NoManager /\ parsed = <<>>

\* one call find_resource_file(target_note_dir, raw_path, current_note_dir)
Call(raw_path, current_note_dir) ==
    LET found == find_resource_file(files, resource_cache, target_note_dir, raw_path,
                                    current_note_dir)
    IN /\ Len(calls) < MaxCalls
       /\ resource_cache' = found.cache
       /\ calls' = Append(calls, CallRecord("run", raw_path, current_note_dir, found))
       /\ UNCHANGED <<files, docVars, linkVars, tzVars, parseVars, logVars, batchVars>>

NextResolve == \E a \in ResolveArgs(files) : Call(a[1], a[2])

SpecResolve == InitResolve /\ [][NextResolve]_vars

\* the cache key of a recorded call
KeyOf(c) == <<decode_url_space_only(c.path), c.dir>>

IsNone(v) == v = None

SameValue(a, b) == IF IsNone(a) \/ IsNone(b) THEN IsNone(a) /\ IsNone(b) ELSE a = b

\* a relative path that climbs out of the directory it is relative to
LeavesRoot(v) == ~IsNone(v) /\ (v = Chars("..") \/ StartsWith(v, Chars("../")))

\* root is p itself or an ancestor of p, component by component
InsideRoot(root, p) ==
    LET r == Split(root, "/") f == Split(p, "/")
    IN Len(f) >= Len(r) /\ SubSeq(f, 1, Len(r)) = r

\* C3: for a raw path that starts with '/', find_resource_file never returns
\* a path that leaves the vault (none that begins with '..'), also when a
\* file exists at that absolute place or under the root once the '..'
\* segments are normalised.
C3_RootAbsoluteStaysInside ==
    \A k \in DOMAIN calls :
       StartsWith(KeyOf(calls[k])[1], <<"/">>) => ~LeavesRoot(calls[k].value)

\* C4: for a raw path that starts with './' or '../' and whose normalised
\* place under the current directory has not the vault root among its
\* ancestors (a sibling such as /vault2 is outside /vault),
\* find_resource_file returns None and stores None under the key.
C4_DotRelativeStaysInside ==
    \A k \in DOMAIN calls :
       LET key == KeyOf(calls[k])
       IN ((StartsWith(key[1], Chars("./")) \/ StartsWith(key[1], Chars("../")))
           /\ ~InsideRoot(target_note_dir, normpath(join(key[2], key[1]))))
          => (IsNone(calls[k].value) /\ IsNone(resource_cache[key]))

\* C10: within one run at most one call per key (raw path with %20 decoded,
\* current directory) consults the file system; every later call with the
\* key returns the stored value without any test of the file system, also
\* when the value is None; and the value stored for a key stays what the
\* first call returned.
C10_Memoization ==
    \A i \in DOMAIN calls :
       /\ KeyOf(calls[i]) \in DOMAIN resource_cache
       /\ SameValue(resource_cache[KeyOf(calls[i])], calls[i].value)
       /\ \A j \in DOMAIN calls :
            (i < j /\ KeyOf(calls[j]) = KeyOf(calls[i])) =>
               (~calls[j].probed /\ SameValue(calls[j].value, calls[i].value))

\* C10 witness: a file was searched for and not found, and a later call that
\* spells the same key otherwise was answered None from the cache.
C10_Witness ==
    \E i, j \in DOMAIN calls :
       /\ i < j
       /\ KeyOf(calls[i]) = KeyOf(calls[j])
       /\ calls[i].probed /\ IsNone(calls[i].value)
       /\ ~calls[j].probed /\ IsNone(calls[j].value)
       /\ calls[i].path # calls[j].path

(***************************************************************************)
(* Specification Spec: update_resource_links on one note of the vault,     *)
(* statement by statement.                                                 *)
(***************************************************************************)
note_file_path == Chars("/vault/notes/a.md")

\* vaults in os.walk order: the note alone, and the note with resources
\* whose names the links of the notes explored can hit
Vaults ==
    {<<Chars("/vault/notes/a.md")>>,
     <<Chars("/vault/not a link.md"), Chars("/vault/notes/a.md"),
       Chars("/vault/assets/img.png"), Chars("/vault/assets/a(1).png"),
       Chars("/vault/assets/my img.png")>>}

NoteBodies == {"[[not a link]]", "\n![[img.png]]", "![p](img.png)"}

\* notes with one well-formed code fence that holds link-shaped text, and
\* no link outside the fence
FencedNotes ==
    {Chars(b) \o Fenced(ch, n, lang, pad, body) :
       b \in Before, ch \in FenceChars, n \in 3..MaxFence, lang \in FenceLangs,
       pad \in FencePads, body \in NoteBodies}

NoteLinks ==
    {"[[https://example.com/img.png]]", "![[https://example.com/img.png|pic]]",
     "[[obsidian://open/img.png]]", "![[img.png]]", "[[img.png|pic]]",
     "[[missing.png]]", "![p](https://example.com/img.png)", "[p](example.com/img.png)",
     "[o](obsidian://open/img.png)", "[m](mailto:img.png)", "![p](img.png)",
     "[p](assets/img.png)", "![q](missing.png)",
     "[](a.md#Heading)", "[](a.md#^blk)", "[d](a.md#Heading)"}

\* notes with one link, or two, and no code
LinkNotes ==
    {Chars(b) \o Chars(l) : b \in Before, l \in NoteLinks} \cup
    {Chars(l) \o <<" ">> \o Chars("![[img.png]]") : l \in NoteLinks}

\* image embeds with a size
EmbedPaths == {"img.png", "assets/img.png", "../assets/img.png", "a(1).png", "my img.png"}
EmbedSizes == {"400", "400x300", "1"}
Embed(path, size) == Chars("![[") \o Chars(path) \o <<"|">> \o Chars(size) \o Chars("]]")
EmbedNotes == {Embed(path, size) : path \in EmbedPaths, size \in EmbedSizes}

\* notes with one link whose path or anchor has a space, written as a
\* space or as %20
SpacedLinks ==
    {"[[my img.png#a b|d]]", "[[not a link#^b c]]", "[d](my%20img.png#a%20b)",
     "[d](my img.png#a b)", "![d](my%20img.png)"}
SpacedNotes == {Chars(l) : l \in SpacedLinks}

Notes == FencedNotes \cup LinkNotes \cup EmbedNotes \cup SpacedNotes

Init ==
    /\ files \in Vaults
    /\ content \in Notes
    /\ updated_content = content
    /\ code_blocks = <<>>
    /\ resource_cache = <<>>
    /\ calls = <<>>
    /\ pc = "open"
    /\ link = <<>> /\ answer = Pending
    /\ parts = <<>> /\ warnings = <<>>
    /\ NoBatch /\ NoManager /\ parsed = <<>>

\* updated_content, code_blocks = save_code_blocks(content)
SaveCodeBlocks ==
    /\ pc = "open"
    /\ Shielded(save_code_blocks(content))
    /\ pc' = "shielded"
    /\ UNCHANGED <<content, fsVars, linkVars, tzVars, parseVars, logVars, batchVars>>

\* the effects of one rewriter: the text it returns, the entries it adds to
\* resource_cache and the calls of find_resource_file it makes
Rewritten(out) ==
    /\ updated_content' = out.text
    /\ resource_cache' = out.cache
    /\ calls' = calls \o out.calls
    /\ parts' = out.parts
    /\ warnings' = warnings \o out.warnings

\* updated_content = convert_wiki_links(note_file_path, updated_content)
ConvertWikiLinks ==
    /\ pc = "shielded"
    /\ Rewritten(convert_wiki_links(files, resource_cache, note_file_path, updated_content))
    /\ pc' = "wiki"
    /\ UNCHANGED <<content, code_blocks, files, linkVars, tzVars, parseVars, batchVars>>

\* updated_content = convert_markdown_links(note_file_path, updated_content)
ConvertMarkdownLinks ==
    /\ pc = "wiki"
    /\ Rewritten(convert_markdown_links(files, resource_cache, note_file_path,
                                        updated_content))
    /\ pc' = "markdown"
    /\ UNCHANGED <<content, code_blocks, files, linkVars, tzVars, parseVars, batchVars>>

\* updated_content = convert_markdown_links_blog(note_file_path, updated_content)
ConvertMarkdownLinksBlog ==
    /\ pc = "markdown"
    /\ Rewritten(convert_markdown_links_blog(files, resource_cache, note_file_path,
                                             updated_content))
    /\ pc' = "blog"
    /\ UNCHANGED <<content, code_blocks, files, linkVars, tzVars, parseVars, batchVars>>

\* updated_content = restore_code_blocks(updated_content, code_blocks), and
\* the note is written back
RestoreCodeBlocks ==
    /\ pc = "blog"
    /\ updated_content' = restore_code_blocks(updated_content, code_blocks)
    /\ pc' = "written"
    /\ UNCHANGED <<content, code_blocks, fsVars, linkVars, tzVars, parseVars, logVars, batchVars>>

Next ==
    \/ SaveCodeBlocks
    \/ ConvertWikiLinks
    \/ ConvertMarkdownLinks
    \/ ConvertMarkdownLinksBlog
    \/ RestoreCodeBlocks

Spec == Init /\ [][Next]_vars

\* C2: a note with one well-formed code fence that holds link-shaped text
\* comes out of save_code_blocks, the three rewriters and
\* restore_code_blocks unchanged, whatever files the vault holds.
C2_FencedNoteUnchanged ==
    (pc = "written" /\ content \in FencedNotes) => updated_content = content

\* a path the rewriters are to pass through: a web link or an obsidian:// link
PassedThrough(path) == is_web_link(path) \/ StartsWith(path, Chars("obsidian://"))

\* the paths of the matches the rewriter that leads to position p finds in text
MatchedPaths(p, text) ==
    LET ms == IF p = "wiki" THEN extract_wiki_links(text) ELSE extract_markdown_links(text)
    IN [k \in 1..Len(ms) |-> IF Falsy(ms[k].path) THEN note_file_path ELSE ms[k].path]

\* C5: in each of the three rewriters a match whose path is a web link or
\* starts with obsidian:// is never handed to find_resource_file, and a
\* text all of whose matches are such links is emitted unchanged, whatever
\* files the vault holds.
C5_WebLinksPassThrough ==
    [][pc' \in {"wiki", "markdown", "blog"} =>
         LET paths == MatchedPaths(pc', updated_content)
         IN /\ \A k \in (Len(calls) + 1)..Len(calls') : ~PassedThrough(calls'[k].path)
            /\ (\A k \in 1..Len(paths) : PassedThrough(paths[k]))
                 => updated_content' = updated_content]_vars

(***************************************************************************)
(* Unresolved references.                                                  *)
(***************************************************************************)
\* ''.join(parts)
RECURSIVE Joined(_)
Joined(items) == IF items = <<>> THEN <<>> ELSE Head(items) \o Joined(Tail(items))

\* the matches the rewriter that moves the script to position kind works on
MatchesOf(kind, text) ==
    IF kind = "wiki" THEN extract_wiki_links(text) ELSE extract_markdown_links(text)

\* the number of the resolver call made for match k: the resolved matches
\* are looked up in document order
CallIndex(kind, matches, k) ==
    Cardinality({i \in 1..k : IsResolved(kind, note_file_path, matches[i])})

\* what the claim asks of one run of a rewriter over text, given the parts
\* list it built, the text it returned, the calls it made and what it logged
UnresolvedKept(kind, text, matches, built, out, made, logged) ==
    /\ Len(made) = CallIndex(kind, matches, Len(matches))
    /\ matches # <<>> => /\ Len(built) = 2 * Len(matches) + 1
                         /\ out = Joined(built)
    /\ \A k \in 1..Len(matches) :
          (/\ IsResolved(kind, note_file_path, matches[k])
           /\ IsNone(made[CallIndex(kind, matches, k)].value))
          => /\ built[2 * k] = matches[k].full_match
             /\ built[2 * k - 1]
                  = SubSeq(text, (IF k = 1 THEN 0 ELSE matches[k - 1].end) + 1,
                           matches[k].start)
             /\ \E w \in 1..Len(logged) :
                   /\ logged[w].link = matches[k].full_match
                   /\ logged[w].path = made[CallIndex(kind, matches, k)].path

\* C11: in every rewriter, a local match for which find_resource_file
\* returns None is emitted as its original text at its position, a warning
\* is logged for it, and the rewriter goes on with the later matches
C11_UnresolvedKept ==
    [][pc' \in {"wiki", "markdown", "blog"} =>
         UnresolvedKept(pc', updated_content, MatchesOf(pc', updated_content),
                        parts', updated_content',
                        SubSeq(calls', Len(calls) + 1, Len(calls')),
                        SubSeq(warnings', Len(warnings) + 1, Len(warnings')))]_vars

\* a rewriter has kept an unresolved link and rewritten the link after it
C11_Witness ==
    /\ pc = "wiki"
    /\ Len(extract_wiki_links(content)) = 2
    /\ Len(parts) = 5
    /\ parts[2] = extract_wiki_links(content)[1].full_match
    /\ parts[4] # extract_wiki_links(content)[2].full_match
    /\ \E w \in 1..Len(warnings) : warnings[w].link = parts[2]
    /\ \E c \in 1..Len(calls) : IsNone(calls[c].value)

(***************************************************************************)
(* The display text of a rewritten Markdown link.                          *)
(***************************************************************************)
\* the first non-empty of the description, the anchor title, the block id
\* and the file name of the resource
DisplayText(match, resource_name) ==
    IF ~Falsy(match.desc) THEN match.desc
    ELSE IF ~Falsy(match.title) THEN match.title
    ELSE IF ~Falsy(match.block_id) THEN match.block_id
    ELSE resource_name

\* text is [display](url) for some url
IsLinkShowing(text, display) ==
    /\ StartsWith(text, <<"[">> \o display \o Chars("]("))
    /\ EndsWith(text, <<")">>)

\* what the claim asks of one run of a Markdown rewriter
DisplayPrecedence(kind, found, made, built) ==
    \A k \in 1..Len(found) :
       (/\ IsResolved(kind, note_file_path, found[k])
        /\ ~IsNone(made[CallIndex(kind, found, k)].value)
        /\ get_file_type(basename(made[CallIndex(kind, found, k)].path)) # "image")
       => IsLinkShowing(built[2 * k],
                        DisplayText(found[k], basename(made[CallIndex(kind, found, k)].path)))

\* C18: for a resolved resource that is not an image each Markdown rewriter
\* emits [display](url), display being the first non-empty of the link's
\* description, its anchor title, its block id and the resource's file name
C18_DisplayPrecedence ==
    [][pc' \in {"markdown", "blog"} =>
         DisplayPrecedence(pc', extract_markdown_links(updated_content),
                           SubSeq(calls', Len(calls) + 1, Len(calls')), parts')]_vars

(***************************************************************************)
(* Spaces in the URL of a rewritten link.                                  *)
(***************************************************************************)
\* url with each space written %20 and every other character as it is
RECURSIVE PercentTwenty(_)
PercentTwenty(url) ==
    IF url = <<>> THEN <<>>
    ELSE (IF Head(url) = " " THEN Chars("%20") ELSE <<Head(url)>>)
           \o PercentTwenty(Tail(url))

\* url with each %20 read as a space and every other character as it is
RECURSIVE TwentyAsSpace(_)
TwentyAsSpace(url) ==
    IF url = <<>> THEN <<>>
    ELSE IF StartsWith(url, Chars("%20")) THEN <<" ">> \o TwentyAsSpace(From(url, 3))
    ELSE <<Head(url)>> \o TwentyAsSpace(Tail(url))

\* the URL part of an emitted link: the src attribute of an element, or
\* what stands between "](" and the closing parenthesis
UrlOf(text) ==
    IF Contains(text, Chars(" src=\""))
    THEN LET rest == From(text, Find(text, Chars(" src=\""), 0) + 6)
         IN SubSeq(rest, 1, Find(rest, <<"\"">>, 0))
    ELSE LET rest == From(text, Find(text, Chars("]("), 0) + 2)
         IN SubSeq(rest, 1, Len(rest) - 1)

\* the prefix and the fragment a rewriter puts around the resolved path
PrefixOf(kind) ==
    IF kind = "wiki" THEN internal_link_prefix
    ELSE IF kind = "markdown" THEN markdown_link_prefix
    ELSE blog_link_prefix
FragmentOf(kind, match) ==
    IF kind = "wiki" THEN WikiFragment(match) ELSE MarkdownFragment(match)

\* what the claim asks of one run of a rewriter
SpaceOnly(kind, found, made, built) ==
    \A k \in 1..Len(found) :
       IsResolved(kind, note_file_path, found[k]) =>
          LET call == made[CallIndex(kind, found, k)]
          IN /\ kind # "wiki" =>
                   call.path = TwentyAsSpace(MatchPath(note_file_path, found[k]))
             /\ (~IsNone(call.value) /\ built[2 * k] # found[k].full_match)
                   => /\ ~Contains(UrlOf(built[2 * k]), <<" ">>)
                      /\ UrlOf(built[2 * k])
                           = PercentTwenty(PrefixOf(kind) \o call.value
                                             \o FragmentOf(kind, found[k]))

\* C19: the URL of every rewritten link has no space: it is the prefix, the
\* resolved path and the anchor with each space written %20, a %20 of the
\* source staying one %20, and every other character as it was; decoding
\* reads %20 as a space and changes nothing else
C19_SpaceOnlyEncoding ==
    [][pc' \in {"wiki", "markdown", "blog"} =>
         SpaceOnly(pc', MatchesOf(pc', updated_content),
                   SubSeq(calls', Len(calls) + 1, Len(calls')), parts')]_vars

\* a link whose source writes the spaces of its path and of its anchor as
\* %20 has been rewritten to the file with a space in its name
C19_Witness ==
    /\ pc = "markdown"
    /\ content = Chars("[d](my%20img.png#a%20b)")
    /\ Len(calls) = 1
    /\ calls[1].path = Chars("my img.png")
    /\ SameValue(calls[1].value, Chars("assets/my img.png"))
    /\ Len(parts) = 3
    /\ parts[2] = Chars("[d](/assets/my%20img.png#a%20b)")

(***************************************************************************)
(* Dot-relative paths that name a file of the vault.                       *)
(***************************************************************************)
\* the raw path of a call, %20 read as a space, starts with ./ or ../
IsDotRelative(c) ==
    StartsWith(KeyOf(c)[1], Chars("./")) \/ StartsWith(KeyOf(c)[1], Chars("../"))

\* the place the raw path of a call names, taken from the note's directory
TargetOf(c) == normpath(join(c.dir, KeyOf(c)[1]))

\* no segment of a relative path is '.' or '..'
IsNormalised(v) ==
    \A i \in 1..Len(Split(v, "/")) : Split(v, "/")[i] \notin {<<>>, <<".">>, <<".", ".">>}

\* C17: for a raw path that starts with ./ or ../ and that, taken from the
\* note's directory, is an existing file inside the vault (the path as
\* written resolves on the file system), find_resource_file returns the path
\* of that file relative to the vault root, without '.' or '..' segments
C17_DotRelativeResolved ==
    \A k \in DOMAIN calls :
       (/\ IsDotRelative(calls[k])
        /\ isfile(files, join(calls[k].dir, KeyOf(calls[k])[1]))
        /\ InsideRoot(target_note_dir, TargetOf(calls[k])))
       => /\ ~IsNone(calls[k].value)
          /\ target_note_dir \o <<"/">> \o calls[k].value = TargetOf(calls[k])
          /\ IsNormalised(calls[k].value)

\* the example of the spec
C17_Witness ==
    \E k \in DOMAIN calls :
       /\ calls[k].path = Chars("../assets/img.png")
       /\ calls[k].dir = Chars("/vault/notes")
       /\ SameValue(calls[k].value, Chars("assets/img.png"))

(***************************************************************************)
(* Image embeds through the whole of update_resource_links.                *)
(***************************************************************************)
\* text is an img element whose src ends with resolved, with the attributes
\* of size, and whose alt is name
IsImgElement(text, resolved, attributes, name) ==
    /\ StartsWith(text, Chars("<img src=\""))
    /\ EndsWith(text, resolved \o Chars("\"") \o attributes
                        \o Chars(" alt=\"") \o name \o Chars("\" />"))

\* the attributes of an img element for the sizes of EmbedSizes
AttributesOf(size) ==
    IF size = "400x300" THEN Chars(" width=\"400\" height=\"300\"")
    ELSE Chars(" width=\"") \o Chars(size) \o Chars("\"")

\* C13: a note that is the embed ![[P|W]] of an image that resolves to R,
\* W a width of 1 to 4 digits or WxH, comes out of update_resource_links as
\* an img element whose src ends with R, with width W (and height H) and
\* with the file name of P as alt
C13_ImageEmbed ==
    \A path \in EmbedPaths, size \in EmbedSizes :
        (/\ pc = "written"
         /\ content = Embed(path, size)
         /\ calls # <<>> /\ ~IsNone(calls[1].value))
        => IsImgElement(updated_content, calls[1].value, AttributesOf(size),
                        basename(Chars(path)))

(***************************************************************************)
(* The batch: iterate_files over the notes of the vault, some of which     *)
(* cannot be opened, read or written.                                      *)
(***************************************************************************)
\* file.endswith('.md')
IsNote(file) == Len(file) >= 3 /\ From(file, Len(file) - 3) = Chars(".md")

\* what a rewriter adds to the results of the passes before it
Then(first, second) ==
    [second EXCEPT !.calls = first.calls \o @, !.warnings = first.warnings \o @]

\* the passes of update_resource_links, each working on the result of the
\* one before it; the results are carried as one-element sets
MarkdownPass(fl, note, outs) ==
    {Then(o, convert_markdown_links(fl, o.cache, note, o.text)) : o \in outs}

BlogPass(fl, note, outs) ==
    {Then(o, convert_markdown_links_blog(fl, o.cache, note, o.text)) : o \in outs}

Restored(blocks, outs) ==
    {[o EXCEPT !.text = restore_code_blocks(@, blocks)] : o \in outs}

Transformed(fl, cache, note, saved) ==
    Restored(saved.blocks,
      BlogPass(fl, note,
        MarkdownPass(fl, note, {convert_wiki_links(fl, cache, note, saved.text)})))

\* the text update_resource_links computes from the text it read, with the
\* cache entries, resolver calls and warnings of its rewriters
UpdatedNote(fl, cache, note, text) ==
    UNION {Transformed(fl, cache, note, saved) : saved \in {save_code_blocks(text)}}

BatchFiles == <<Chars("/vault/b.md"), Chars("/vault/img.png"), Chars("/vault/a.md")>>

BatchNotes == {BatchFiles[i] : i \in {j \in 1..Len(BatchFiles) : IsNote(BatchFiles[j])}}

BatchTexts == {Chars("![[img.png]]"), Chars("[[missing.png]] ![p](img.png)")}

\* the operation of update_resource_links that fails on a note
Faults == {"none", "open", "read", "decode", "open for writing", "write"}

InitBatch ==
    /\ files = BatchFiles
    /\ disk \in [BatchNotes -> BatchTexts]
    /\ faults \in [BatchNotes -> Faults]
    /\ walk = files
    /\ processed = <<>> /\ reported = <<>> /\ raised = None /\ updated_count = 0
    /\ resource_cache = <<>> /\ calls = <<>>
    /\ parts = <<>> /\ warnings = <<>>
    /\ pc = "walking" /\ content = <<>> /\ updated_content = <<>> /\ code_blocks = <<>>
    /\ link = <<>> /\ answer = Pending /\ parsed = <<>>
    /\ NoManager

\* iterate_files takes the next file of the walk; a note is counted and
\* logged before update_resource_links is called
Visiting(file) ==
    /\ pc = "walking" /\ walk # <<>> /\ file = Head(walk)

Counted(file) ==
    /\ updated_count' = updated_count + 1
    /\ processed' = Append(processed, file)

\* an exception leaves update_resource_links and, nothing catching it,
\* iterate_files
Raise(exception) ==
    /\ raised' = exception
    /\ pc' = "raised"
    /\ UNCHANGED <<walk, disk>>

\* the rewriters have run: their cache entries, calls and warnings
Ran(out) ==
    /\ resource_cache' = out.cache
    /\ calls' = calls \o out.calls
    /\ warnings' = warnings \o out.warnings

\* a file that is not a note
SkipFile ==
    /\ Visiting(Head(walk)) /\ ~IsNote(Head(walk))
    /\ walk' = Tail(walk)
    /\ UNCHANGED <<pc, content, updated_content, code_blocks, fsVars, linkVars, tzVars, parseVars, logVars,
                   disk, faults, processed, reported, raised, updated_count>>

\* open(note_file_path, 'r') fails: the with statement is in no try block
OpenFails ==
    /\ Visiting(Head(walk)) /\ IsNote(Head(walk)) /\ faults[Head(walk)] = "open"
    /\ Counted(Head(walk))
    /\ Raise("OSError")
    /\ UNCHANGED <<content, updated_content, code_blocks, fsVars, linkVars, tzVars, parseVars, logVars,
                   faults, reported>>

\* file.read() fails: the error is printed, content stays unbound and
\* save_code_blocks(content) raises
ReadFails ==
    /\ Visiting(Head(walk)) /\ IsNote(Head(walk))
    /\ faults[Head(walk)] \in {"read", "decode"}
    /\ Counted(Head(walk))
    /\ reported' = Append(reported, [note |-> Head(walk),
                     error |-> IF faults[Head(walk)] = "read" THEN "IOError"
                               ELSE "UnicodeDecodeError"])
    /\ Raise("UnboundLocalError")
    /\ UNCHANGED <<content, updated_content, code_blocks, fsVars, linkVars, tzVars, parseVars, logVars, faults>>

\* open(note_file_path, 'w') fails after the rewriters have run
WriteOpenFails(file) ==
    /\ faults[file] = "open for writing"
    /\ Raise("OSError")
    /\ UNCHANGED reported

\* file.write(updated_content) fails: the error is logged; the file was
\* truncated when it was opened
WriteFails(file) ==
    /\ faults[file] = "write"
    /\ disk' = [disk EXCEPT ![file] = <<>>]
    /\ reported' = Append(reported, [note |-> file, error |-> "Exception"])
    /\ walk' = Tail(walk)
    /\ UNCHANGED <<pc, raised>>

\* the text is written back to the note
Written(file, out) ==
    /\ faults[file] = "none"
    /\ disk' = [disk EXCEPT ![file] = out.text]
    /\ walk' = Tail(walk)
    /\ UNCHANGED <<pc, reported, raised>>

\* update_resource_links has read the note: the rewriters run, and the note
\* is written back unless opening or writing it fails
UpdateResourceLinks ==
    /\ Visiting(Head(walk)) /\ IsNote(Head(walk))
    /\ faults[Head(walk)] \in {"none", "open for writing", "write"}
    /\ Counted(Head(walk))
    /\ \E out \in UpdatedNote(files, resource_cache, Head(walk), disk[Head(walk)]) :
          /\ Ran(out)
          /\ \/ WriteOpenFails(Head(walk))
             \/ WriteFails(Head(walk))
             \/ Written(Head(walk), out)
    /\ UNCHANGED <<content, updated_content, code_blocks, files, linkVars, tzVars, parseVars, parts, faults>>

\* return updated_count
Return ==
    /\ pc = "walking" /\ walk = <<>>
    /\ pc' = "returned"
    /\ UNCHANGED <<content, updated_content, code_blocks, fsVars, linkVars, tzVars, parseVars, logVars,
                   batchVars>>

NextBatch ==
    \/ SkipFile
    \/ OpenFails
    \/ ReadFails
    \/ UpdateResourceLinks
    \/ Return

SpecBatch == InitBatch /\ [][NextBatch]_vars

\* a note on which some operation fails has been reported
IsReported(note) == \E r \in 1..Len(reported) : reported[r].note = note

\* a note has been taken up by iterate_files
IsProcessed(note) == \E k \in 1..Len(processed) : processed[k] = note

\* C12: a failure to open, read or write one note is reported and the note
\* skipped, and iterate_files goes on to every other note of the batch: when
\* iterate_files is over no exception has left it, every note has been taken
\* up, every failure has been reported, and every note without a failure
\* holds its rewritten text
C12_FailuresArePerFile ==
    pc \in {"returned", "raised"} =>
        /\ IsNone(raised)
        /\ \A note \in BatchNotes :
              /\ IsProcessed(note)
              /\ faults[note] # "none" => IsReported(note)

(***************************************************************************)
(* The link parsers on their own: extract_wiki_links and                   *)
(* extract_markdown_links applied to one text.                             *)
(***************************************************************************)
\* ![[P|T]] with blanks on either side of the bar
SlotPaths == {"assets/img.png", "my img.png", "a"}
SlotPads == {"", " "}
SlotTexts == {"400", "400x300", "1", "12345", "400x", "x300", "pic", "a b", "400 ",
              "1234x1234"}
WikiEmbed(path, slot) == Chars("![[") \o path \o <<"|">> \o slot \o Chars("]]")
SlotEmbeds ==
    {WikiEmbed(Chars(path) \o Chars(b), Chars(a) \o Chars(slot)) :
       path \in SlotPaths, b \in SlotPads, a \in SlotPads, slot \in SlotTexts}

\* links with a fragment after the path
FragmentPaths == {"assets/file.md", ""}
Fragments == {"^blk", "title", "^a^b", "a b", "^", "t^x", "^b c"}
WikiFragmentLink(path, fragment) ==
    Chars("[[") \o Chars(path) \o <<"#">> \o Chars(fragment) \o Chars("|alias]]")
MarkdownFragmentLink(path, fragment) ==
    Chars("[alias](") \o Chars(path) \o <<"#">> \o Chars(fragment) \o Chars(")")
FragmentLinks ==
    {WikiFragmentLink(path, f) : path \in FragmentPaths, f \in Fragments} \cup
    {MarkdownFragmentLink(path, f) : path \in FragmentPaths, f \in Fragments}

\* Markdown links with one slot in the bracket, or with a description and
\* a size
DescTexts == {"400", "400x300", "pic", "a b", "400 ", "12345", "", " pic", "1x1", "400x",
              "pic  "}
SizeTexts == {"400", "400x300"}
Marks == {"", "!"}
OneSlotLink(mark, desc) ==
    Chars(mark) \o <<"[">> \o Chars(desc) \o Chars("](img.png)")
TwoSlotLink(mark, desc, b, a, size) ==
    Chars(mark) \o <<"[">> \o Chars(desc) \o Chars(b) \o <<"|">> \o Chars(a)
      \o Chars(size) \o Chars("](img.png)")
SlotLinks ==
    {OneSlotLink(mark, desc) : mark \in Marks, desc \in DescTexts} \cup
    {TwoSlotLink(mark, desc, b, a, size) :
       mark \in Marks, desc \in DescTexts, b \in SlotPads, a \in SlotPads,
       size \in SizeTexts}

\* wiki links with a size and an alias
Aliases == {"pic", "my pic", "300"}
SizedAliased(mark, size, alias) ==
    Chars(mark) \o Chars("[[img.png|") \o Chars(size) \o <<"|">> \o Chars(alias) \o Chars("]]")
SizedAliasedLinks ==
    {SizedAliased(mark, size, alias) : mark \in Marks, size \in SizeTexts, alias \in Aliases}

ParseTexts == SlotEmbeds \cup FragmentLinks \cup SlotLinks \cup SizedAliasedLinks

InitParse ==
    /\ content \in ParseTexts
    /\ parsed = <<>>
    /\ pc = "text"
    /\ updated_content = <<>> /\ code_blocks = <<>>
    /\ files = <<>> /\ resource_cache = <<>> /\ calls = <<>>
    /\ link = <<>> /\ answer = Pending
    /\ parts = <<>> /\ warnings = <<>>
    /\ NoBatch /\ NoManager

\* matches = extract_wiki_links(text)
ExtractWikiLinks ==
    /\ pc = "text"
    /\ parsed' = extract_wiki_links(content)
    /\ pc' = "wiki links"
    /\ UNCHANGED <<content, updated_content, code_blocks, fsVars, linkVars, tzVars, logVars,
                   batchVars>>

\* matches = extract_markdown_links(text)
ExtractMarkdownLinks ==
    /\ pc = "text"
    /\ parsed' = extract_markdown_links(content)
    /\ pc' = "markdown links"
    /\ UNCHANGED <<content, updated_content, code_blocks, fsVars, linkVars, tzVars, logVars,
                   batchVars>>

NextParse ==
    \/ ExtractWikiLinks
    \/ ExtractMarkdownLinks

SpecParse == InitParse /\ [][NextParse]_vars

\* 1 to 4 digits
IsWidth(t) == Len(t) \in 1..4 /\ \A i \in 1..Len(t) : t[i] \in Digit

\* t parsed ^\d{1,4}(x\d{1,4})?$ in full
IsSizeShape(t) ==
    \/ IsWidth(t)
    \/ \E i \in 1..Len(t) :
         t[i] = "x" /\ IsWidth(SubSeq(t, 1, i - 1)) /\ IsWidth(SubSeq(t, i + 1, Len(t)))

\* the parser returned one embed match with this path, whose slot is a size
\* when it has the shape of one and an alias otherwise
OneEmbedWithSlot(path, slot) ==
    /\ Len(parsed) = 1
    /\ parsed[1].embed = TRUE
    /\ SameValue(parsed[1].path, path)
    /\ IF IsSizeShape(slot)
       THEN SameValue(parsed[1].size, slot) /\ IsNone(parsed[1].desc)
       ELSE SameValue(parsed[1].desc, slot) /\ IsNone(parsed[1].size)

\* C14 as the spec states it: path is P and the slot T is taken whole
C14_AsClaimed ==
    \A path \in SlotPaths, b \in SlotPads, a \in SlotPads, slot \in SlotTexts :
        (pc = "wiki links"
         /\ content = WikiEmbed(Chars(path) \o Chars(b), Chars(a) \o Chars(slot)))
        => OneEmbedWithSlot(Chars(path) \o Chars(b), Chars(a) \o Chars(slot))

\* C14: extract_wiki_links on ![[P|T]] returns one match with embed true,
\* path P, and T as size when it has the shape of a size in full and as
\* alias otherwise, where blanks after P and before T belong to neither
C14_SizeOrAliasSlot ==
    \A path \in SlotPaths, b \in SlotPads, a \in SlotPads, slot \in SlotTexts :
        (pc = "wiki links"
         /\ content = WikiEmbed(Chars(path) \o Chars(b), Chars(a) \o Chars(slot)))
        => OneEmbedWithSlot(Chars(path), Chars(slot))

\* the example of the spec, and a slot set off by blanks
C14_Witness ==
    /\ pc = "wiki links"
    /\ \/ /\ content = Chars("![[assets/img.png|400x300]]")
          /\ SameValue(parsed[1].size, Chars("400x300"))
       \/ /\ content = Chars("![[assets/img.png | pic]]")
          /\ SameValue(parsed[1].desc, Chars("pic"))

\* the fragment of the one match returned is a block id when it starts with
\* a caret and a title otherwise
FragmentTold(fragment) ==
    /\ Len(parsed) = 1
    /\ IF fragment[1] = "^"
       THEN SameValue(parsed[1].block_id, Tail(fragment)) /\ IsNone(parsed[1].title)
       ELSE SameValue(parsed[1].title, fragment) /\ IsNone(parsed[1].block_id)

\* C15: in every match of either parser a fragment #^id is the block_id
\* with no title and a fragment #text is the title with no block_id; no
\* match has both
C15_AnchorOrBlockId ==
    pc \in {"wiki links", "markdown links"} =>
        /\ \A k \in 1..Len(parsed) : IsNone(parsed[k].title) \/ IsNone(parsed[k].block_id)
        /\ \A path \in FragmentPaths, f \in Fragments :
              (/\ parsed # <<>>
               /\ \/ pc = "wiki links" /\ content = WikiFragmentLink(path, f)
                  \/ pc = "markdown links" /\ content = MarkdownFragmentLink(path, f))
              => FragmentTold(Chars(f))

\* the example of the spec
C15_Witness ==
    /\ pc = "markdown links"
    /\ content = Chars("[alias](assets/file.md#^blk)")
    /\ Len(parsed) = 1
    /\ SameValue(parsed[1].path, Chars("assets/file.md"))
    /\ SameValue(parsed[1].block_id, Chars("blk"))
    /\ IsNone(parsed[1].title)

\* t without the blanks at its end
WithoutTrailingBlanks(t) ==
    IF t # <<>> /\ t[Len(t)] = " " THEN SubSeq(t, 1, Len(t) - 1) ELSE t

\* the text group 2 of markdown_link_regex captures from the bracket text
Captured(desc) == WithoutTrailingBlanks(WithoutTrailingBlanks(Chars(desc)))

\* C16: with one slot in the bracket extract_markdown_links returns the
\* captured text as size, desc None, exactly when it has the shape of a size
\* in full, and as desc, size None, otherwise; with a |size part desc and
\* size are the two captured texts, desc without its trailing whitespace
C16_DescOrSize ==
    pc = "markdown links" =>
        /\ \A mark \in Marks, desc \in DescTexts :
              content = OneSlotLink(mark, desc) =>
                  /\ Len(parsed) = 1
                  /\ IF IsSizeShape(Captured(desc))
                     THEN /\ SameValue(parsed[1].size, Captured(desc))
                          /\ IsNone(parsed[1].desc)
                     ELSE /\ SameValue(parsed[1].desc, Captured(desc))
                          /\ IsNone(parsed[1].size)
        /\ \A mark \in Marks, desc \in DescTexts, b \in SlotPads, a \in SlotPads,
                size \in SizeTexts :
              content = TwoSlotLink(mark, desc, b, a, size) =>
                  /\ Len(parsed) = 1
                  /\ SameValue(parsed[1].desc, Captured(desc))
                  /\ SameValue(parsed[1].size, Chars(size))

\* a single slot that is a size, and a description followed by a size
C16_Witness ==
    /\ pc = "markdown links"
    /\ \/ /\ content = OneSlotLink("!", "400x300")
          /\ SameValue(parsed[1].size, Chars("400x300")) /\ IsNone(parsed[1].desc)
       \/ /\ content = TwoSlotLink("", "a b", " ", "", "400")
          /\ SameValue(parsed[1].desc, Chars("a b"))

(***************************************************************************)
(* The fence that closes a fenced block.                                   *)
(***************************************************************************)
\* the length of the run of ch that s starts with, and that it ends with
RECURSIVE LeadingRun(_, _)
LeadingRun(s, ch) ==
    IF s # <<>> /\ Head(s) = ch THEN 1 + LeadingRun(Tail(s), ch) ELSE 0
RECURSIVE TrailingRun(_, _)
TrailingRun(s, ch) ==
    IF s # <<>> /\ s[Len(s)] = ch THEN 1 + TrailingRun(SubSeq(s, 1, Len(s) - 1), ch) ELSE 0

\* a saved code that is a fenced block, not an inline span
IsFencedCode(code) == code # <<>> /\ code[1] \in FenceChars /\ LeadingRun(code, code[1]) >= 3

\* C20: a fenced block opened by N fence characters is closed only by a run
\* of at least N of the same character at the start of a line: every saved
\* block ends with a fence at least as long as the one it starts with, and a
\* block with a shorter fence nested in it is saved whole, closing fence
\* included, under one placeholder
C20_FenceClosing ==
    pc = "saved" =>
       /\ \A k \in DOMAIN code_blocks :
             IsFencedCode(code_blocks[k][2]) =>
                TrailingRun(code_blocks[k][2], code_blocks[k][2][1])
                  >= LeadingRun(code_blocks[k][2], code_blocks[k][2][1])
       /\ content \in NestedTexts =>
             /\ Len(code_blocks) = 1
             /\ code_blocks[1][2] \in NestedSpans
             /\ \E b \in Before, a \in After :
                   updated_content = Chars(b) \o Placeholder(1) \o Chars(a)

(***************************************************************************)
(* The order in which find_resource_file tries the places of a path.       *)
(***************************************************************************)
\* the places tried for raw path p from directory dir, as os.path.join and
\* os.path.normpath name them: under the note, under the root, normalised
Locations(p, dir) ==
    <<join(dir, p), join(target_note_dir, p)>> \o
    (IF StartsWith(p, <<"/">>) THEN <<normpath(join(target_note_dir, Tail(p)))>>
     ELSE IF StartsWith(p, Chars("./")) \/ StartsWith(p, Chars("../"))
     THEN <<normpath(join(dir, p))>>
     ELSE <<normpath(join(target_note_dir, p)), normpath(join(dir, p))>>)

\* one place as it is, then with each known extension appended
Spellings(place) ==
    <<place>> \o [k \in 1..Len(all_extensions) |-> place \o <<".">> \o all_extensions[k]]

\* every spelling of every place, in the order claimed
RECURSIVE Tests(_)
Tests(places) == IF places = <<>> THEN <<>> ELSE Spellings(Head(places)) \o Tests(Tail(places))

\* the files of the vault whose name is name, or name with a known extension
Namesakes(fl, name) ==
    {i \in 1..Len(fl) :
       /\ InsideRoot(target_note_dir, fl[i])
       /\ basename(fl[i]) \in {name} \cup {name \o <<".">> \o all_extensions[k] :
                                              k \in 1..Len(all_extensions)}}

\* what the claim asks of the value v returned for raw path p from dir
InCandidateOrder(fl, p, dir, v) ==
    LET tests == Tests(Locations(p, dir))
        hits == {i \in 1..Len(tests) : isfile(fl, tests[i])}
        first == CHOOSE i \in hits : \A j \in hits : i <= j
    IN IF hits # {}
       THEN /\ ~IsNone(v)
            /\ normpath(join(target_note_dir, v)) = normpath(tests[first])
       ELSE IF Namesakes(fl, basename(p)) = {} THEN IsNone(v)
       ELSE /\ ~IsNone(v)
            /\ \E i \in Namesakes(fl, basename(p)) : join(target_note_dir, v) = fl[i]

\* the call made last
LastCall == calls[Len(calls)]

\* C21: a call that reaches the file system returns the first existing file
\* among the place under the note, the place under the root and the
\* normalised places, each tried as it is and then with each known extension
\* before the next place; only when none exists the vault is searched for a
\* file named as the path's base name, or that name with a known extension
\* (stated of the call just made: every call of a run is the last one once)
C21_CandidateOrder ==
    (calls # <<>> /\ LastCall.probed) =>
       InCandidateOrder(files, KeyOf(LastCall)[1], LastCall.dir, LastCall.value)

\* both the file under the note and the file under the root exist, and the
\* one under the note was returned; a name without its extension was found
\* under the note before the file of that very name under the root
C21_Witness ==
    \E i, j \in DOMAIN calls :
       /\ calls[i].path = Chars("img.png") /\ calls[i].dir = Chars("/vault/notes")
       /\ isfile(files, Chars("/vault/img.png"))
       /\ SameValue(calls[i].value, Chars("notes/img.png"))
       /\ calls[j].path = Chars("img") /\ calls[j].dir = Chars("/vault/notes")
       /\ isfile(files, Chars("/vault/img"))
       /\ SameValue(calls[j].value, Chars("notes/img.png"))

(***************************************************************************)
(* The size and the alias of a wiki link that has both.                    *)
(***************************************************************************)
\* C22: for a wiki link [[P|S|A]] with a size S and an alias A,
\* extract_wiki_links returns size exactly S and alias exactly A, no
\* character added
C22_FieldsVerbatim ==
    \A mark \in Marks, size \in SizeTexts, alias \in Aliases :
       (pc = "wiki links" /\ content = SizedAliased(mark, size, alias))
       => /\ Len(parsed) = 1
          /\ SameValue(parsed[1].size, Chars(size))
          /\ SameValue(parsed[1].desc, Chars(alias))

(***************************************************************************)
(* The fragment of a rewritten URL.                                        *)
(***************************************************************************)
\* the fragment the claim gives the URL written for a match
ClaimedFragment(kind, match) ==
    IF ~Falsy(match.title) THEN <<"#">> \o PercentTwenty(match.title)
    ELSE IF kind = "wiki" /\ ~Falsy(match.block_id)
    THEN Chars("#^") \o PercentTwenty(match.block_id)
    ELSE <<>>

\* what the claim asks of one run of convert_wiki_links or convert_markdown_links
FragmentsWritten(kind, found, made, built) ==
    \A k \in 1..Len(found) :
       (/\ IsResolved(kind, note_file_path, found[k])
        /\ ~IsNone(made[CallIndex(kind, found, k)].value))
       => LET url == UrlOf(built[2 * k])
              path == PercentTwenty(PrefixOf(kind) \o made[CallIndex(kind, found, k)].value)
          IN /\ url = path \o ClaimedFragment(kind, found[k])
             /\ kind = "markdown" => ~Contains(url, Chars("#^"))

\* C23: convert_markdown_links ends the URL with '#title' exactly when the
\* match has an anchor title and never writes a block id; convert_wiki_links
\* ends it with '#title' for an anchor and with '#^id' for a block id
C23_Fragments ==
    [][pc' \in {"wiki", "markdown"} =>
         FragmentsWritten(pc', MatchesOf(pc', updated_content),
                          SubSeq(calls', Len(calls) + 1, Len(calls')), parts')]_vars

\* convert_markdown_links has dropped the block id that convert_wiki_links
\* had written into the URL
C23_Witness ==
    /\ pc = "markdown"
    /\ content = Chars("[[not a link#^b c]]")
    /\ Len(parts) = 3
    /\ parts[2] = Chars("[not a link](/not%20a%20link.md)")

(***************************************************************************)
(* The text a rewriter leaves between and around the matches.              *)
(***************************************************************************)
\* the text between the end of match k - 1 and the start of match k
Gap(text, found, k) ==
    SubSeq(text, (IF k = 1 THEN 0 ELSE found[k - 1].end) + 1, found[k].start)

\* in span order, the text before each match and the match's replacement,
\* then the tail after the last match
RECURSIVE Splice(_, _, _, _)
Splice(text, found, reps, k) ==
    IF k > Len(found)
    THEN From(text, IF found = <<>> THEN 0 ELSE found[Len(found)].end)
    ELSE Gap(text, found, k) \o reps[k] \o Splice(text, found, reps, k + 1)

\* what the claim asks of one run of a rewriter over text
CursorSplice(text, found, built, out) ==
    /\ \A k \in 1..Len(found) :
          /\ k > 1 => found[k - 1].end <= found[k].start
          /\ found[k].start < found[k].end
          /\ found[k].full_match = SubSeq(text, found[k].start + 1, found[k].end)
    /\ found # <<>> => Len(built) = 2 * Len(found) + 1
    /\ out = Splice(text, found, [k \in 1..Len(found) |-> built[2 * k]], 1)
    /\ (\A k \in 1..Len(found) : built[2 * k] = found[k].full_match) => out = text

\* C24: the output of each rewriter is, in ascending span order, the
\* untouched text before each match, the match's replacement, and the tail
\* after the last match, so that the text outside the spans is kept once and
\* in order; when every match is passed through the output is the input
C24_CursorSplice ==
    [][pc' \in {"wiki", "markdown", "blog"} =>
         CursorSplice(updated_content, MatchesOf(pc', updated_content), parts',
                      updated_content')]_vars

\* a rewriter has passed a web link through, kept the text after it and
\* rewritten the link that follows
C24_Witness ==
    /\ pc = "markdown"
    /\ content = Chars("![p](https://example.com/img.png) ![[img.png]]")
    /\ Len(parts) = 5
    /\ parts[2] = Chars("![p](https://example.com/img.png)")
    /\ parts[3] = <<" ">>
    /\ parts[4] = Chars("![img.png](/assets/img.png)")
    /\ updated_content = Chars("![p](https://example.com/img.png) ![img.png](/assets/img.png)")

(***************************************************************************)
(* src/obsidian/move_image_if_needed.py.  Its CODE_PATTERN, save_code_blocks, *)
(* restore_code_blocks, wiki_link_regex, markdown_link_regex and           *)
(* parse_desc_size are copies of those of update_obsidian_link_format.py;  *)
(* its is_web_link and its two extract functions are its own.              *)
(***************************************************************************)
IMAGE_EXT == {Chars(w) : w \in {"png", "jpg", "jpeg", "gif", "bmp", "tiff", "webp", "svg"}}

\* is_image(path)
is_image(path) == \E ext \in IMAGE_EXT : EndsWith(StrLower(path), <<".">> \o ext)

\* domain_pattern of this file's is_web_link
mv_domain_pattern ==
    Cat(<<Bos,
          Plus(Cat(<<Plus(Set(AlNum \cup {"-"})), Lit(".")>>)),
          Rep(Set(Alpha), 2, -1, TRUE),
          Opt(Cat(<<Lit(":"), Plus(Set(Digit))>>)),
          Opt(Cat(<<Lit("/"), Star(NSet(SpaceCh))>>)),
          Eos>>)

\* is_web_link(link) of this file
mv_is_web_link(l) ==
    IF StartsWith(l, Chars("http://")) \/ StartsWith(l, Chars("https://")) THEN TRUE
    ELSE IF \E p \in {"ftp://", "mailto:", "tel:"} : StartsWith(l, Chars(p)) THEN TRUE
    ELSE IF MatchAt(mv_domain_pattern, l, 0).start >= 0 THEN TRUE
    ELSE IF StartsWith(l, Chars("//")) THEN TRUE
    ELSE FALSE

\* the record extract_wiki_links of this file builds for one regex match
mv_WikiRecord(text, m) ==
    [type |-> "wiki",
     embed |-> ~Falsy(Group(text, m, 1)),
     path |-> Group(text, m, 2),
     title |-> Group(text, m, 3),
     block_id |-> Group(text, m, 4),
     desc |-> Group(text, m, 6),
     size |-> Group(text, m, 5),
     start |-> m.start,
     end |-> m.end]

\* extract_wiki_links(text) of this file: the links to images
mv_extract_wiki_links(text) ==
    LET ms == FindIter(wiki_link_pattern, text, 0)
    IN SelectSeq([k \in 1..Len(ms) |-> mv_WikiRecord(text, ms[k])],
                 LAMBDA r : ~Falsy(r.path) /\ is_image(r.path))

\* the record extract_markdown_links of this file builds for one regex match
mv_MarkdownRecord(text, m) ==
    LET ds == parse_desc_size(Group(text, m, 2), Group(text, m, 3))
    IN [type |-> "markdown",
        embed |-> ~Falsy(Group(text, m, 1)),
        path |-> Group(text, m, 4),
        title |-> Group(text, m, 5),
        block_id |-> Group(text, m, 6),
        desc |-> ds[1],
        size |-> ds[2],
        start |-> m.start,
        end |-> m.end]

\* extract_markdown_links(text) of this file: the links to local images
mv_extract_markdown_links(text) ==
    LET ms == FindIter(markdown_link_pattern, text, 0)
    IN SelectSeq([k \in 1..Len(ms) |-> mv_MarkdownRecord(text, ms[k])],
                 LAMBDA r : ~Falsy(r.path) /\ ~mv_is_web_link(r.path) /\ is_image(r.path))

\* the characters of codes 32 to 126, in order
Ascii ==
    Chars(" !\"#$%&'()*+,-./0123456789:;<=>?@ABCDEFGHIJKLMNOPQRSTUVWXYZ[\\]^_")
      \o <<BQ>> \o Chars("abcdefghijklmnopqrstuvwxyz{|}~")

HexDigit == Digit \cup {"a", "b", "c", "d", "e", "f", "A", "B", "C", "D", "E", "F"}

HexValue(ch) ==
    LET t == Chars("0123456789abcdef")
    IN (CHOOSE i \in 1..Len(t) : t[i] = LowerOf(ch)) - 1

\* urllib.parse.unquote(s), for the escapes of the characters of Ascii (the
\* escapes of other bytes are left as written here)
RECURSIVE unquote(_)
unquote(s) ==
    IF s = <<>> THEN <<>>
    ELSE IF /\ s[1] = "%" /\ Len(s) >= 3 /\ s[2] \in HexDigit /\ s[3] \in HexDigit
            /\ 16 * HexValue(s[2]) + HexValue(s[3]) \in 32..126
    THEN <<Ascii[16 * HexValue(s[2]) + HexValue(s[3]) - 31]>> \o unquote(From(s, 3))
    ELSE <<Head(s)>> \o unquote(Tail(s))

\* search_folder, which the script sets to the folder it works on
search_folder == Chars("/vault")

\* find_image_in_directory's walk: the index in fl of the first file named
\* image_name under search_folder, or 0
FoundImage(fl, image_name) ==
    LET hits == {i \in 1..Len(fl) : UnderTop(fl[i], search_folder) /\ basename(fl[i]) = image_name}
    IN IF hits = {} THEN 0 ELSE CHOOSE i \in hits : \A j \in hits : i <= j

\* shutil.move(fl[i], dst)
Moved(fl, i, dst) == SubSeq(fl, 1, i - 1) \o SubSeq(fl, i + 1, Len(fl)) \o <<dst>>

\* matches.sort(key=lambda m: m['start']): a stable sort
RECURSIVE SortedByStart(_)
SortedByStart(ms) ==
    IF ms = <<>> THEN <<>>
    ELSE LET least == CHOOSE i \in 1..Len(ms) :
                         \A j \in 1..Len(ms) :
                            ms[i].start < ms[j].start \/ (ms[i].start = ms[j].start /\ i <= j)
         IN <<ms[least]>> \o SortedByStart(SubSeq(ms, 1, least - 1) \o SubSeq(ms, least + 1, Len(ms)))

\* the fragment update_image_resources_and_links appends to full_url
mv_Fragment(match) ==
    IF ~Falsy(match.title) /\ Falsy(match.block_id) THEN <<"#">> \o match.title
    ELSE IF Falsy(match.title) /\ ~Falsy(match.block_id) THEN Chars("#^") \o match.block_id
    ELSE <<>>

\* str(v) as an f-string renders it
Rendered(v) == IF v = None THEN Chars("None") ELSE v

\* full_path for one match, flag telling whether the image was moved
mv_Emitted(match, flag, image_name) ==
    LET full_url == (IF flag THEN Chars("res/") \o image_name ELSE match.path)
                      \o mv_Fragment(match)
    IN IF match.type = "wiki"
       THEN (IF match.embed THEN Chars("![[") ELSE Chars("[["))
              \o full_url
              \o (IF ~Falsy(match.desc) THEN <<"|">> \o match.desc ELSE <<>>)
              \o (IF ~Falsy(match.size) THEN <<"|">> \o match.size ELSE <<>>)
              \o Chars("]]")
       ELSE (IF match.embed THEN Chars("![") ELSE Chars("["))
              \o (IF ~Falsy(match.desc)
                  THEN match.desc \o (IF ~Falsy(match.size) THEN <<"|">> \o match.size
                                      ELSE <<>>)
                  ELSE Rendered(match.size))
              \o Chars("](")
              \o encode_url_space_only(decode_url_space_only(full_url))
              \o Chars(")")

\* the body of the loop of update_image_resources_and_links for one match
mv_Step(content_in, note, match, last_end, acc) ==
    LET image_name == basename(unquote(match.path))
        excepted_image_path == join(join(dirname(note), Chars("res")), image_name)
        there == isfile(acc.files, excepted_image_path)
        at == IF there THEN 0 ELSE FoundImage(acc.files, image_name)
        flag == at > 0
    IN [parts |-> acc.parts \o <<SubSeq(content_in, last_end + 1, match.start),
                                 mv_Emitted(match, flag, image_name)>>,
        files |-> IF flag THEN Moved(acc.files, at, excepted_image_path) ELSE acc.files,
        updated |-> acc.updated \/ flag]

RECURSIVE mv_Loop(_, _, _, _, _, _)
mv_Loop(content_in, note, ms, k, last_end, acc) ==
    IF k > Len(ms) THEN [acc EXCEPT !.parts = Append(@, From(content_in, last_end))]
    ELSE mv_Loop(content_in, note, ms, k + 1, ms[k].end,
                 mv_Step(content_in, note, ms[k], last_end, acc))

\* update_image_resources_and_links(note_file_path, content, matches), with
\* the file system it leaves behind
update_image_resources_and_links(fl, note, content_in, ms) ==
    mv_Loop(content_in, note, SortedByStart(ms), 1, 0,
            [parts |-> <<>>, files |-> fl, updated |-> FALSE])

(***************************************************************************)
(* Specification SpecMove: the body of move_image_if_needed for one note,  *)
(* statement by statement.                                                 *)
(***************************************************************************)
\* folders in os.walk order: the image elsewhere in the folder, and the
\* image already in the res directory of the note
MoveVaults ==
    {<<Chars("/vault/notes/a.md"), Chars("/vault/assets/a.png"),
       Chars("/vault/assets/b c.png")>>,
     <<Chars("/vault/notes/a.md"), Chars("/vault/notes/res/a.png")>>}

MoveLinks ==
    {"![[a.png]]", "![[a.png|400]]", "![[a.png|pic]]", "![[a.png|400|pic]]",
     "[[assets/a.png#t|pic]]", "[[a.png#^blk]]", "![[b c.png|400x300]]", "![[missing.png]]",
     "![d](assets/a.png)", "![d|400](assets/a.png)", "![](assets/a.png)",
     "![400](assets/a.png)", "[d](assets/a.png#t)", "![d](assets/b%20c.png)",
     "![d](a.png)", "![d](res/a.png)", "![d](https://example.com/a.png)",
     "[d]([[a.png]]b.png)", "[x]([[a.png|400]]/a.png)", "![[a.png]] ![d](assets/a.png)"}

MoveNotes ==
    {Chars(b) \o Chars(l) \o Chars(a) : b \in Before, l \in MoveLinks, a \in After} \cup
    {Fenced(BQ, 3, "", "", "![[a.png]]")}

InitMove ==
    /\ files \in MoveVaults
    /\ content \in MoveNotes
    /\ updated_content = content
    /\ code_blocks = <<>>
    /\ parsed = <<>>
    /\ parts = <<>>
    /\ pc = "open"
    /\ resource_cache = <<>> /\ calls = <<>>
    /\ link = <<>> /\ answer = Pending
    /\ warnings = <<>>
    /\ NoBatch /\ NoManager

\* updated_content, code_blocks = save_code_blocks(content)
MoveSaveCodeBlocks ==
    /\ pc = "open"
    /\ Shielded(save_code_blocks(content))
    /\ pc' = "shielded"
    /\ UNCHANGED <<content, fsVars, linkVars, tzVars, parseVars, logVars, batchVars>>

\* matches = extract_wiki_links(updated_content)
\* matches += extract_markdown_links(updated_content)
MoveExtractLinks ==
    /\ pc = "shielded"
    /\ parsed' = mv_extract_wiki_links(updated_content)
                   \o mv_extract_markdown_links(updated_content)
    /\ pc' = "matched"
    /\ UNCHANGED <<content, updated_content, code_blocks, fsVars, linkVars, tzVars, logVars,
                   batchVars>>

\* the assignments of update_image_resources_and_links' effects
MoveUpdated(out) ==
    /\ updated_content' = Joined(out.parts)
    /\ parts' = out.parts
    /\ files' = out.files

\* if matches: updated_content, updated = update_image_resources_and_links(...)
MoveUpdateLinks ==
    /\ pc = "matched"
    /\ parsed # <<>>
    /\ MoveUpdated(update_image_resources_and_links(files, note_file_path, updated_content,
                                                    parsed))
    /\ parsed' = SortedByStart(parsed)
    /\ pc' = "updated"
    /\ UNCHANGED <<content, code_blocks, resource_cache, calls, linkVars, tzVars, warnings,
                   batchVars>>

\* updated_content = restore_code_blocks(updated_content, code_blocks), and
\* the text is written back
MoveRestoreCodeBlocks ==
    /\ \/ pc = "updated"
       \/ pc = "matched" /\ parsed = <<>>
    /\ updated_content' = restore_code_blocks(updated_content, code_blocks)
    /\ pc' = "written"
    /\ UNCHANGED <<content, code_blocks, fsVars, linkVars, tzVars, parseVars, logVars, batchVars>>

NextMove ==
    \/ MoveSaveCodeBlocks
    \/ MoveExtractLinks
    \/ MoveUpdateLinks
    \/ MoveRestoreCodeBlocks

SpecMove == InitMove /\ [][NextMove]_vars

(***************************************************************************)
(* The spans of the merged list of matches.                                *)
(***************************************************************************)
\* C25: the spans of extract_wiki_links(text) + extract_markdown_links(text)
\* do not overlap pairwise, also when a wiki link stands inside the
\* parentheses of a Markdown link
C25_SpansDisjoint ==
    pc = "matched" =>
       \A i, j \in DOMAIN parsed :
          i # j => (parsed[i].end <= parsed[j].start \/ parsed[j].end <= parsed[i].start)

(***************************************************************************)
(* Image links parsed again after update_image_resources_and_links.        *)
(***************************************************************************)
\* the matches the parser of the kind of match finds in text
ParsedAgain(match, text) ==
    IF match.type = "wiki" THEN mv_extract_wiki_links(text)
    ELSE mv_extract_markdown_links(text)

\* again is the one link the emitted text holds, with the fields of match
SameFields(match, again) ==
    /\ Len(again) = 1
    /\ again[1].embed = match.embed
    /\ SameValue(again[1].desc, match.desc)
    /\ SameValue(again[1].size, match.size)
    /\ SameValue(again[1].title, match.title)
    /\ SameValue(again[1].block_id, match.block_id)
    /\ \/ TwentyAsSpace(again[1].path) = TwentyAsSpace(match.path)
       \/ TwentyAsSpace(again[1].path)
            = Chars("res/") \o basename(TwentyAsSpace(match.path))

\* C28: every image link update_image_resources_and_links writes parses, with
\* the parser of its kind, to the embed flag, description or alias, size and
\* anchor or block id of the source link, and to the source path or
\* res/<file name>
C28_FieldsKept ==
    pc = "updated" =>
       \A k \in DOMAIN parsed : SameFields(parsed[k], ParsedAgain(parsed[k], parts[2 * k]))

(***************************************************************************)
(* src/obsidian/convert_obsidian_markdown_links.py: the converter to       *)
(* external links.  Its parsers, its code shield and the text of its       *)
(* find_resource_file are those modelled above; its extension tables, its  *)
(* is_web_link and its rewriter are its own.                               *)
(***************************************************************************)
external_link_prefix ==
    Chars("https://raw.githubusercontent.com/littlekj/linkres/master/obsidian/")

\* supported_extensions of this file, in the order of the dictionary
cml_supported_extensions ==
    <<[type |-> "image",
       extensions |-> <<Chars("png"), Chars("jpg"), Chars("jpeg"), Chars("gif"), Chars("bmp"),
                        Chars("tiff"), Chars("webp"), Chars("svg")>>],
      [type |-> "document",
       extensions |-> <<Chars("pdf"), Chars("doc"), Chars("docx"), Chars("xls"), Chars("xlsx"),
                        Chars("ppt"), Chars("pptx"), Chars("txt"), Chars("md")>>],
      [type |-> "audio",
       extensions |-> <<Chars("mp3"), Chars("wav"), Chars("ogg"), Chars("flac"), Chars("m4a")>>],
      [type |-> "video",
       extensions |-> <<Chars("mp4"), Chars("mov"), Chars("avi"), Chars("mkv"), Chars("webm")>>],
      [type |-> "archive",
       extensions |-> <<Chars("zip"), Chars("rar"), Chars("7z"), Chars("tar"), Chars("gz")>>]>>

\* all_extensions of this file
cml_all_extensions ==
    Joined([k \in DOMAIN cml_supported_extensions |-> cml_supported_extensions[k].extensions])

\* get_file_type(file_path) of this file
cml_get_file_type(file_path) ==
    LET ext == IF Contains(file_path, <<".">>) THEN StrLower(LastField(file_path, ".")) ELSE <<>>
        hits == {k \in DOMAIN cml_supported_extensions :
                    \E e \in DOMAIN cml_supported_extensions[k].extensions :
                       cml_supported_extensions[k].extensions[e] = ext}
    IN IF hits = {} THEN "other"
       ELSE cml_supported_extensions[CHOOSE k \in hits : \A h \in hits : k <= h].type

\* domain_pattern of this file's is_web_link
cml_domain_pattern ==
    Cat(<<Bos,
          Plus(Cat(<<Plus(Set(AlNum \cup {"-"})), Lit(".")>>)),
          Rep(Set(Alpha), 2, -1, TRUE),
          Opt(Cat(<<Lit(":"), Plus(Set(Digit))>>)),
          Opt(Cat(<<Lit("/"), Star(NSet(SpaceCh))>>)),
          Eos>>)

\* is_web_link(link) of this file
cml_is_web_link(l) ==
    IF StartsWith(l, Chars("http://")) \/ StartsWith(l, Chars("https://")) THEN TRUE
    ELSE IF \E p \in {"ftp://", "mailto:", "tel:"} : StartsWith(l, Chars(p)) THEN TRUE
    ELSE IF MatchAt(cml_domain_pattern, l, 0).start >= 0 THEN TRUE
    ELSE IF StartsWith(l, Chars("//")) THEN TRUE
    ELSE IF Contains(StrLower(l), Chars("localhost")) \/ Contains(StrLower(l), Chars("127.0.0.1"))
    THEN FALSE
    ELSE FALSE

\* the first existing file among path.ext1, path.ext2, ..., or None
RECURSIVE cml_FirstWithExt(_, _, _, _)
cml_FirstWithExt(ds, fs, path, k) ==
    IF k > Len(cml_all_extensions) THEN None
    ELSE IF IsFileIn(ds, fs, path \o <<".">> \o cml_all_extensions[k])
    THEN path \o <<".">> \o cml_all_extensions[k]
    ELSE cml_FirstWithExt(ds, fs, path, k + 1)

\* the loop over possible_paths of this file's find_resource_file
RECURSIVE cml_FirstCandidateIn(_, _, _)
cml_FirstCandidateIn(ds, fs, paths) ==
    IF paths = <<>> THEN None
    ELSE IF IsFileIn(ds, fs, Head(paths)) THEN Head(paths)
    ELSE LET e == cml_FirstWithExt(ds, fs, Head(paths), 1)
         IN IF e # None THEN e ELSE cml_FirstCandidateIn(ds, fs, Tail(paths))

\* the file name test of this file's whole-vault search
cml_NameMatches(file, filename) ==
    \/ basename(file) = filename
    \/ \E k \in 1..Len(cml_all_extensions) :
         basename(file) = filename \o <<".">> \o cml_all_extensions[k]

RECURSIVE cml_WalkSearch(_, _, _, _)
cml_WalkSearch(fl, k, source_dir, filename) ==
    IF k > Len(fl) THEN None
    ELSE IF UnderTop(fl[k], source_dir) /\ cml_NameMatches(fl[k], filename) THEN fl[k]
    ELSE cml_WalkSearch(fl, k + 1, source_dir, filename)

\* find_resource_file(source_dir, resource_path, current_note_dir) of this file
cml_find_resource_file(fl, cache, source_dir, raw_path, current_note_dir) ==
    LET resource_path == decode_url_space_only(raw_path)
        cache_key == <<resource_path, current_note_dir>>
        hit == cml_FirstCandidateIn(DirSet(fl), FileComps(fl),
                                    PossiblePaths(source_dir, resource_path, current_note_dir))
        found == cml_WalkSearch(fl, 1, source_dir, basename(resource_path))
        value == IF OutOfRepository(source_dir, resource_path, current_note_dir) THEN None
                 ELSE IF hit # None THEN relpath(hit, source_dir)
                 ELSE IF found # None THEN relpath(found, source_dir)
                 ELSE None
    IN IF cache_key \in DOMAIN cache
       THEN [value |-> cache[cache_key], cache |-> cache]
       ELSE [value |-> value, cache |-> CachePut(cache, cache_key, value)]

\* the bracket of a Markdown image link with its size
cml_Sized(alt_text, width, height) ==
    IF ~Falsy(width) /\ ~Falsy(height) THEN alt_text \o <<"|">> \o width \o <<"x">> \o height
    ELSE IF ~Falsy(width) THEN alt_text \o <<"|">> \o width
    ELSE IF ~Falsy(height) THEN alt_text \o <<"|">> \o height
    ELSE alt_text

\* the <img> element of an embedded image
cml_Img(full_url, alt_text, width, height) ==
    Chars("<img") \o Attr("src", full_url)
      \o (IF ~Falsy(width) THEN Attr("width", width) ELSE <<>>)
      \o (IF ~Falsy(height) THEN Attr("height", height) ELSE <<>>)
      \o Attr("alt", alt_text) \o Chars(" />")

\* display_text = desc or title or block_id or resource_name
cml_DisplayText(match, resource_name) ==
    IF ~Falsy(match.desc) THEN match.desc
    ELSE IF ~Falsy(match.title) THEN match.title
    ELSE IF ~Falsy(match.block_id) THEN match.block_id
    ELSE resource_name

\* full_path for a resource that is no image: the assignment under "if embed"
\* is followed by the unconditional one
cml_OtherLink(match, display_text, full_url) ==
    Chars("[") \o display_text \o Chars("](") \o full_url \o Chars(")")

\* full_path for a resolved local resource
cml_Rewritten(match, resource_name, resource_relpath) ==
    LET full_url == SpaceNormalised(external_link_prefix \o ForwardSlashes(resource_relpath)
                                      \o MarkdownFragment(match))
        width == WidthOf(match.size)
        height == HeightOf(match.size)
        alt_text == decode_url_space_only(IF ~Falsy(match.desc) THEN match.desc
                                          ELSE resource_name)
    IN IF cml_get_file_type(resource_name) = "image"
       THEN IF match.embed THEN cml_Img(full_url, alt_text, width, height)
            ELSE Chars("[") \o cml_Sized(alt_text, width, height) \o Chars("](")
                   \o full_url \o Chars(")")
       ELSE cml_OtherLink(match,
                          decode_url_space_only(cml_DisplayText(match, resource_name)),
                          full_url)

\* the record kept of one find_resource_file call of this file's rewriter:
\* the match it was made for, its arguments and its result
cml_CallRecord(match, resource_path, current_note_dir, found) ==
    [by |-> "external", at |-> match.start, path |-> resource_path,
     dir |-> current_note_dir, value |-> found.value]

\* the body of the rewriter's loop for one match
cml_Step(match, before, acc, local, resource_path, current_note_dir, found) ==
    LET full_path == IF local /\ ~Falsy(found.value)
                     THEN cml_Rewritten(match, basename(resource_path), found.value)
                     ELSE match.full_match
    IN [parts |-> acc.parts \o <<before, full_path>>,
        cache |-> IF local THEN found.cache ELSE acc.cache,
        warnings |-> IF local /\ Falsy(found.value)
                     THEN Append(acc.warnings, Warning(resource_path, match.full_match))
                     ELSE acc.warnings,
        calls |-> IF local
                  THEN Append(acc.calls,
                              cml_CallRecord(match, resource_path, current_note_dir, found))
                  ELSE acc.calls]

RECURSIVE cml_Loop(_, _, _, _, _, _, _)
cml_Loop(fl, path_of_note, text, ms, k, last_end, acc) ==
    IF k > Len(ms)
    THEN [acc EXCEPT !.parts = IF ms = <<>> THEN <<>> ELSE Append(@, From(text, last_end))]
    ELSE cml_Loop(fl, path_of_note, text, ms, k + 1, ms[k].end,
           cml_Step(ms[k], SubSeq(text, last_end + 1, ms[k].start), acc,
                    ~cml_is_web_link(MatchPath(path_of_note, ms[k])),
                    decode_url_space_only(MatchPath(path_of_note, ms[k])),
                    dirname(path_of_note),
                    cml_find_resource_file(fl, acc.cache, target_note_dir,
                                           decode_url_space_only(MatchPath(path_of_note, ms[k])),
                                           dirname(path_of_note))))

\* convert_markdown_links(note_file_path, updated_content) of this file; ms is
\* extract_markdown_links(updated_content) sorted by start
cml_convert_markdown_links(fl, cache, path_of_note, text, ms) ==
    cml_Loop(fl, path_of_note, text, ms, 1, 0,
             [parts |-> <<>>, cache |-> cache, warnings |-> <<>>, calls |-> <<>>])

(***************************************************************************)
(* Specification SpecExternal: update_resource_links of                    *)
(* convert_obsidian_markdown_links.py on one note.                         *)
(***************************************************************************)
ExternalVaults ==
    {<<Chars("/vault/assets/b c.png"), Chars("/vault/assets/img.png"),
       Chars("/vault/assets/report.pdf"), Chars("/vault/notes/a.md"),
       Chars("/vault/notes/song.mp3")>>,
     <<Chars("/vault/notes/a.md"), Chars("/vault/notes/report.png")>>}

ExternalLinks ==
    {"![doc](assets/report.pdf)", "[doc](assets/report.pdf)", "![](assets/report.pdf)",
     "![doc|400](assets/report.pdf)", "[t](assets/report.pdf#sec)", "[](#sec)",
     "![p](assets/img.png)", "![p|400](assets/img.png)", "![p|400x300](assets/img.png)",
     "[p](assets/img.png)", "[p|400](assets/img.png)", "[|400x300](assets/img.png)",
     "![v](assets/b%20c.png)", "![s](./song.mp3)", "[s](./song.mp3#^blk)",
     "![a](./report)", "[r](report.pdf)", "[m](./missing.pdf)",
     "![w](https://example.com/x.pdf)", "[doc](assets/report.pdf) ![p](assets/img.png)"}

ExternalNotes ==
    {Chars(b) \o Chars(l) \o Chars(a) : b \in Before, l \in ExternalLinks, a \in After} \cup
    {Fenced(BQ, 3, "", "", "![doc](assets/report.pdf)")}

InitExternal ==
    /\ files \in ExternalVaults
    /\ content \in ExternalNotes
    /\ updated_content = content
    /\ code_blocks = <<>>
    /\ parsed = <<>>
    /\ parts = <<>>
    /\ pc = "open"
    /\ resource_cache = <<>> /\ calls = <<>>
    /\ link = <<>> /\ answer = Pending
    /\ warnings = <<>>
    /\ NoBatch /\ NoManager

\* updated_content, code_blocks = save_code_blocks(content)
ExternalSaveCodeBlocks ==
    /\ pc = "open"
    /\ Shielded(save_code_blocks(content))
    /\ pc' = "shielded"
    /\ UNCHANGED <<content, fsVars, linkVars, tzVars, parseVars, logVars, batchVars>>

\* the assignments of convert_markdown_links' effects
ExternalConverted(out) ==
    /\ updated_content' = IF parsed' = <<>> THEN updated_content ELSE Joined(out.parts)
    /\ parts' = out.parts
    /\ resource_cache' = out.cache
    /\ warnings' = out.warnings
    /\ calls' = out.calls

\* updated_content = convert_markdown_links(note_file_path, updated_content)
ExternalConvertMarkdownLinks ==
    /\ pc = "shielded"
    /\ parsed' = SortedByStart(extract_markdown_links(updated_content))
    /\ ExternalConverted(cml_convert_markdown_links(files, resource_cache, note_file_path,
                                                    updated_content, parsed'))
    /\ pc' = "converted"
    /\ UNCHANGED <<content, code_blocks, files, linkVars, tzVars, batchVars>>

\* updated_content = restore_code_blocks(updated_content, code_blocks), and
\* the text is written back
ExternalRestoreCodeBlocks ==
    /\ pc = "converted"
    /\ updated_content' = restore_code_blocks(updated_content, code_blocks)
    /\ pc' = "written"
    /\ UNCHANGED <<content, code_blocks, fsVars, linkVars, tzVars, parseVars, logVars, batchVars>>

NextExternal ==
    \/ ExternalSaveCodeBlocks
    \/ ExternalConvertMarkdownLinks
    \/ ExternalRestoreCodeBlocks

SpecExternal == InitExternal /\ [][NextExternal]_vars

(***************************************************************************)
(* The two classifiers.                                                    *)
(***************************************************************************)
\* C26: the is_web_link of convert_obsidian_markdown_links.py gives for every
\* link the answer of the canonical is_web_link; a bare file name with a
\* known extension, such as report.pdf, is local for both
C26_ClassifiersAgree ==
    answer # Pending => (cml_is_web_link(link) <=> answer = WebLink)

(***************************************************************************)
(* The embed mark of the links to external resources.                      *)
(***************************************************************************)
\* the text written for match k of the note
WrittenFor(k) == parts[2 * k]

\* match k was resolved to a file that is no image, by its name in the link
\* and by the name of the file found
ResolvedOther(k) ==
    \E c \in DOMAIN calls :
       /\ calls[c].at = parsed[k].start
       /\ ~Falsy(calls[c].value)
       /\ cml_get_file_type(basename(calls[c].path)) # "image"
       /\ cml_get_file_type(calls[c].value) # "image"

\* C27: the link convert_markdown_links of convert_obsidian_markdown_links.py
\* writes for a resolved resource that is no image starts with "![" exactly
\* when the source link was an embed, and with "[" otherwise
C27_EmbedKept ==
    pc = "converted" =>
       \A k \in DOMAIN parsed :
          ResolvedOther(k) =>
             IF parsed[k].embed THEN StartsWith(WrittenFor(k), Chars("!["))
             ELSE StartsWith(WrittenFor(k), Chars("["))

(***************************************************************************)
(* The path a pass writes, resolved by the pass that follows.              *)
(***************************************************************************)
\* the spellings under which the following passes look up the path R that
\* find_resource_file returned: R as convert_wiki_links writes it, "/" + R as
\* convert_markdown_links writes it
Respelled(R) == {R, <<"/">> \o R}

\* C29: a path R that find_resource_file returned for a link of a note is
\* resolved, from the same note directory and on the same file tree, to R
\* again, whether it is looked up as R or as "/" + R
C29_StableResolution ==
    (calls # <<>> /\ ~IsNone(LastCall.value)) =>
       \A q \in Respelled(LastCall.value) :
          SameValue(find_resource_file(files, resource_cache, target_note_dir, q,
                                       LastCall.dir).value,
                    LastCall.value)

(***************************************************************************)
(* src/obsidian/setTimezone.py: the service that keeps the system on Line  *)
(* Islands time during one part of the China day and on China time during  *)
(* the rest.  Times of day are seconds since midnight, China time.         *)
(***************************************************************************)
Day == 24 * 3600

\* datetime.time(hour, minute, second)
dtime(hour, minute, second) == hour * 3600 + minute * 60 + second

ChinaStandardTime == "China Standard Time"
LineIslandsStandardTime == "Line Islands Standard Time"

TARGET_TIMEZONES ==
    [z \in {ChinaStandardTime, LineIslandsStandardTime} |->
       IF z = ChinaStandardTime
       THEN [switch_to |-> LineIslandsStandardTime,
             switch_window |-> <<dtime(0, 0, 0), dtime(6, 30, 0)>>]
       ELSE [switch_to |-> ChinaStandardTime,
             switch_window |-> <<dtime(6, 30, 30), dtime(23, 59, 59)>>]]

DEFAULT_TIMEZONE == ChinaStandardTime

check_interval == 60
max_retries == 3
retry_delay == 300

\* should_switch_timezone(target_config, cst_time)
should_switch_timezone(target_config, current_time) ==
    LET start == target_config.switch_window[1]
        end == target_config.switch_window[2]
    IN IF start < end THEN start <= current_time /\ current_time <= end
       ELSE start <= current_time \/ end >= current_time

\* time.sleep(seconds), on the clock of the China day
Sleep(seconds) == clock' = (clock + seconds) % Day

(***************************************************************************)
(* Specification SpecTimezone: manage_timezone_switching.                  *)
(***************************************************************************)
\* the time zones the system may be found in: the two managed ones and one
\* that is not managed
SystemTimezones == {ChinaStandardTime, LineIslandsStandardTime, "UTC"}

\* the moments at which the service may be started
StartMoments == {dtime(h, m, s) : h \in 0..23, m \in 0..59, s \in {0, 30}}

InitTimezone ==
    /\ clock \in StartMoments
    /\ system_tz \in SystemTimezones
    /\ current_tz = "None" /\ target_tz = "None" /\ attempt = 0
    /\ pc = "check"
    /\ content = <<>> /\ updated_content = <<>> /\ code_blocks = <<>>
    /\ files = <<>> /\ resource_cache = <<>> /\ calls = <<>>
    /\ link = <<>> /\ answer = Pending
    /\ parts = <<>> /\ warnings = <<>>
    /\ NoBatch /\ parsed = <<>>

TimezoneFrame ==
    UNCHANGED <<content, updated_content, code_blocks, fsVars, linkVars, parseVars, logVars,
                batchVars>>

\* current_tz = get_current_timezone() returns None: the loop waits for the
\* next check
QueryFails ==
    /\ pc = "check"
    /\ current_tz' = "None"
    /\ pc' = "sleep"
    /\ UNCHANGED <<clock, system_tz, target_tz, attempt>>
    /\ TimezoneFrame

\* the top of the loop: the current time zone and the China time are read
\* and the branch is chosen
Check ==
    /\ pc = "check"
    /\ current_tz' = system_tz
    /\ IF system_tz \in DOMAIN TARGET_TIMEZONES
       THEN IF should_switch_timezone(TARGET_TIMEZONES[system_tz], clock)
            THEN /\ target_tz' = TARGET_TIMEZONES[system_tz].switch_to
                 /\ pc' = "switch"
            ELSE /\ target_tz' = target_tz
                 /\ pc' = "sleep"
       ELSE /\ target_tz' = DEFAULT_TIMEZONE
            /\ pc' = "restore"
    /\ attempt' = 0
    /\ UNCHANGED <<clock, system_tz>>
    /\ TimezoneFrame

\* set_timezone(target_tz) returns True: the loop is left
SetSucceeds ==
    /\ pc \in {"switch", "restore"}
    /\ system_tz' = target_tz
    /\ pc' = "sleep"
    /\ UNCHANGED <<clock, current_tz, target_tz, attempt>>
    /\ TimezoneFrame

\* set_timezone(target_tz) returns False because tzutil /s failed
SetFails ==
    /\ pc \in {"switch", "restore"}
    /\ pc' = IF pc = "switch" THEN "switch failed" ELSE "restore failed"
    /\ UNCHANGED <<clock, system_tz, current_tz, target_tz, attempt>>
    /\ TimezoneFrame

\* set_timezone(target_tz) returns False although tzutil /s has set the zone:
\* the zone read back for verification is not the one expected
SetUnverified ==
    /\ pc \in {"switch", "restore"}
    /\ system_tz' = target_tz
    /\ pc' = IF pc = "switch" THEN "switch failed" ELSE "restore failed"
    /\ UNCHANGED <<clock, current_tz, target_tz, attempt>>
    /\ TimezoneFrame

\* time.sleep(retry_delay) after a failed attempt, and the next round of
\* for attempt in range(max_retries)
RetryWait ==
    /\ pc \in {"switch failed", "restore failed"}
    /\ Sleep(retry_delay)
    /\ attempt' = attempt + 1
    /\ pc' = IF attempt + 1 >= max_retries THEN "sleep"
             ELSE IF pc = "switch failed" THEN "switch" ELSE "restore"
    /\ UNCHANGED <<system_tz, current_tz, target_tz>>
    /\ TimezoneFrame

\* time.sleep(check_interval) at the end of a round
CheckWait ==
    /\ pc = "sleep"
    /\ Sleep(check_interval)
    /\ pc' = "check"
    /\ UNCHANGED <<system_tz, current_tz, target_tz, attempt>>
    /\ TimezoneFrame

NextTimezone ==
    \/ QueryFails
    \/ Check
    \/ SetSucceeds
    \/ SetFails
    \/ SetUnverified
    \/ RetryWait
    \/ CheckWait

SpecTimezone == InitTimezone /\ [][NextTimezone]_vars

(***************************************************************************)
(* The moments of the calls of set_timezone.                               *)
(***************************************************************************)
\* C30: whenever manage_timezone_switching calls set_timezone(switch_to) for
\* a managed current time zone, on the first attempt or on a retry, the
\* China time lies inside the switch_window of that time zone
C30_SwitchInsideWindow ==
    pc = "switch" => should_switch_timezone(TARGET_TIMEZONES[current_tz], clock)

====
